---- MODULE Spec2Model ----
(***************************************************************************)
(* Settlement pallet (pallets/settlement/src/lib.rs): the instruction      *)
(* lifecycle state machine.  Storage items are the variables, every        *)
(* dispatchable is one action, and the internal functions are operators    *)
(* that take a storage record and return [err, st, val]: the result of the *)
(* call and the storage it leaves.  Nested storage transactions            *)
(* (with_transaction) and the per-call storage layer of a dispatchable     *)
(* keep or discard the storage of the closure they wrap.                   *)
(***************************************************************************)
EXTENDS Integers, Sequences, FiniteSets, TLC

VARIABLES
    VenueInfo,                  \* venue_id -> [creator]
    VenueSigners,               \* set of <<venue_id, signer>> mapped to true
    UserVenues,                 \* identity -> sequence of venue ids
    VenueCounter,
    InstructionCounter,
    InstructionDetails,         \* instruction_id -> [venue_id, settlement_type]
    InstructionStatuses,        \* instruction_id -> InstructionStatus
    InstructionLegs,            \* <<instruction_id, leg_id>> -> Leg   (deprecated table)
    InstructionLegsV2,          \* <<instruction_id, leg_id>> -> LegV2
    InstructionLegStatus,       \* <<instruction_id, leg_id>> -> LegStatus
    InstructionAffirmsPending,  \* instruction_id -> u64
    AffirmsReceived,            \* <<instruction_id, portfolio>> -> AffirmationStatus
    UserAffirmations,           \* <<portfolio, instruction_id>> -> AffirmationStatus
    ReceiptsUsed,               \* set of <<signer, receipt_uid>> mapped to true
    VenueFiltering,             \* set of tickers mapped to true
    VenueAllowList,             \* set of <<ticker, venue_id>> mapped to true
    VenueInstructions,          \* set of <<venue_id, instruction_id>>
    InstructionMemos,           \* set of instruction ids that have a memo
    Agenda,                     \* scheduler: the tasks, each with its name and block
    PortfolioAssetBalances,     \* portfolio -> ticker -> balance
    PortfolioLockedAssets,      \* portfolio -> ticker -> locked amount
    PortfolioNFT,               \* nft id -> owning portfolio
    PortfolioLockedNFT,         \* set of locked nft ids
    Frozen,                     \* set of frozen tickers (transfers of these fail)
    block_number,
    last                        \* the last call: what was called and what it returned

storageVars ==
    <<VenueInfo, VenueSigners, UserVenues, VenueCounter, InstructionCounter,
      InstructionDetails, InstructionStatuses, InstructionLegs, InstructionLegsV2,
      InstructionLegStatus, InstructionAffirmsPending, AffirmsReceived,
      UserAffirmations, ReceiptsUsed, VenueFiltering, VenueAllowList,
      VenueInstructions, InstructionMemos, Agenda, PortfolioAssetBalances,
      PortfolioLockedAssets, PortfolioNFT, PortfolioLockedNFT>>

vars == <<storageVars, Frozen, block_number, last>>

(***************************************************************************)
(* Bounds and input sets                                                   *)
(***************************************************************************)
MaxInstructions == 1
MaxVenues == 1
MaxBlock == 3

Identities == {"alice", "bob"}
Portfolios == {"pA", "pB", "pC"}
FungibleTickers == {"T1", "OFF"}
NFTTicker == "N1"
Tickers == FungibleTickers \cup {NFTTicker}
NFTIds == {1, 2}
Signers == {"s1"}
ReceiptUids == {7}

\* The id counters are u64; the model's integers are 32 bit wide, and the
\* counters take the same steps at the end of either range
U64Max == 2147483647

(***************************************************************************)
(* Storage maps: a map holds the keys that were inserted; a read of a      *)
(* missing key gives the default of the value type.                        *)
(***************************************************************************)
Get(m, k, d) == IF k \in DOMAIN m THEN m[k] ELSE d

Put(m, k, v) == [x \in DOMAIN m \cup {k} |-> IF x = k THEN v ELSE m[x]]

Del(m, k) == [x \in DOMAIN m \ {k} |-> m[x]]

EmptyMap == [x \in {} |-> 0]

Min(a, b) == IF a < b THEN a ELSE b

\* let v = ...; F(v)
Let(v, F(_)) == F(v)

SaturatingSub(a, b) == IF a >= b THEN a - b ELSE 0

\* BTreeSet<PortfolioId> iterates in the order of the ids
PortfolioOrder == <<"pA", "pB", "pC">>

PortfolioSeq(P) == SelectSeq(PortfolioOrder, LAMBDA p : p \in P)

\* Who holds custody of each portfolio
Custodian == [p \in Portfolios |-> IF p = "pA" THEN "alice" ELSE "bob"]

(***************************************************************************)
(* The storage as one record, so that a function can return the storage it *)
(* leaves and a transaction can discard it.                                *)
(***************************************************************************)
Storage ==
    [VenueInfo |-> VenueInfo, VenueSigners |-> VenueSigners, UserVenues |-> UserVenues,
     VenueCounter |-> VenueCounter, InstructionCounter |-> InstructionCounter,
     InstructionDetails |-> InstructionDetails,
     InstructionStatuses |-> InstructionStatuses,
     InstructionLegs |-> InstructionLegs, InstructionLegsV2 |-> InstructionLegsV2,
     InstructionLegStatus |-> InstructionLegStatus,
     InstructionAffirmsPending |-> InstructionAffirmsPending,
     AffirmsReceived |-> AffirmsReceived, UserAffirmations |-> UserAffirmations,
     ReceiptsUsed |-> ReceiptsUsed, VenueFiltering |-> VenueFiltering,
     VenueAllowList |-> VenueAllowList, VenueInstructions |-> VenueInstructions,
     InstructionMemos |-> InstructionMemos, Agenda |-> Agenda,
     PortfolioAssetBalances |-> PortfolioAssetBalances,
     PortfolioLockedAssets |-> PortfolioLockedAssets,
     PortfolioNFT |-> PortfolioNFT, PortfolioLockedNFT |-> PortfolioLockedNFT]

Commit(st) ==
    /\ VenueInfo' = st.VenueInfo
    /\ VenueSigners' = st.VenueSigners
    /\ UserVenues' = st.UserVenues
    /\ VenueCounter' = st.VenueCounter
    /\ InstructionCounter' = st.InstructionCounter
    /\ InstructionDetails' = st.InstructionDetails
    /\ InstructionStatuses' = st.InstructionStatuses
    /\ InstructionLegs' = st.InstructionLegs
    /\ InstructionLegsV2' = st.InstructionLegsV2
    /\ InstructionLegStatus' = st.InstructionLegStatus
    /\ InstructionAffirmsPending' = st.InstructionAffirmsPending
    /\ AffirmsReceived' = st.AffirmsReceived
    /\ UserAffirmations' = st.UserAffirmations
    /\ ReceiptsUsed' = st.ReceiptsUsed
    /\ VenueFiltering' = st.VenueFiltering
    /\ VenueAllowList' = st.VenueAllowList
    /\ VenueInstructions' = st.VenueInstructions
    /\ InstructionMemos' = st.InstructionMemos
    /\ Agenda' = st.Agenda
    /\ PortfolioAssetBalances' = st.PortfolioAssetBalances
    /\ PortfolioLockedAssets' = st.PortfolioLockedAssets
    /\ PortfolioNFT' = st.PortfolioNFT
    /\ PortfolioLockedNFT' = st.PortfolioLockedNFT

\* Results of a call: the error ("Ok" for success), the storage left, a value
Ok(st) == [err |-> "Ok", st |-> st, val |-> 0]

OkVal(st, v) == [err |-> "Ok", st |-> st, val |-> v]

Err(e, st) == [err |-> e, st |-> st, val |-> 0]

\* A storage transaction around a closure that started from `before`:
\* committed when the closure returns Ok, rolled back when it returns an error
with_transaction(before, r) == IF r.err = "Ok" THEN r ELSE [r EXCEPT !.st = before]

(***************************************************************************)
(* Values                                                                  *)
(***************************************************************************)
Unknown == [s |-> "Unknown", b |-> 0]
Pending == [s |-> "Pending", b |-> 0]
Failed == [s |-> "Failed", b |-> 0]
Success(b) == [s |-> "Success", b |-> b]
Rejected(b) == [s |-> "Rejected", b |-> b]

PendingTokenLock == [s |-> "PendingTokenLock", signer |-> "", uid |-> 0]
ExecutionPending == [s |-> "ExecutionPending", signer |-> "", uid |-> 0]
ExecutionToBeSkipped(signer, uid) ==
    [s |-> "ExecutionToBeSkipped", signer |-> signer, uid |-> uid]

SettleOnAffirmation == [t |-> "SettleOnAffirmation", b |-> 0]
SettleOnBlock(b) == [t |-> "SettleOnBlock", b |-> b]
SettleManual(b) == [t |-> "SettleManual", b |-> b]

\* Instruction::default(), read when the details are not stored
DefaultInstruction ==
    [venue_id |-> 0, settlement_type |-> SettleOnAffirmation, trade_date |-> 0, value_date |-> 0]

Fungible(ticker, amount) ==
    [kind |-> "Fungible", ticker |-> ticker, amount |-> amount, ids |-> <<>>]
NonFungible(ticker, ids) ==
    [kind |-> "NonFungible", ticker |-> ticker, amount |-> 0, ids |-> ids]

LegV2(from, to, asset) == [from |-> from, to |-> to, asset |-> asset]
Leg(from, to, ticker, amount) ==
    [from |-> from, to |-> to, asset |-> ticker, amount |-> amount]

\* impl From<Leg> for LegV2
LegIntoV2(leg) == LegV2(leg.from, leg.to, Fungible(leg.asset, leg.amount))

\* impl TryFrom<LegV2> for Leg
LegTryFromV2(leg_v2) ==
    IF leg_v2.asset.kind = "NonFungible"
    THEN [err |-> "InvalidLegAsset", val |-> Leg("", "", "", 0)]
    ELSE [err |-> "Ok",
          val |-> Leg(leg_v2.from, leg_v2.to, leg_v2.asset.ticker, leg_v2.asset.amount)]

DefaultLegV2 == LegV2("", "", Fungible("", 0))

\* LegAsset::ticker_and_amount
ticker_and_amount(asset) ==
    IF asset.kind = "Fungible" THEN <<asset.ticker, asset.amount>>
    ELSE <<asset.ticker, Len(asset.ids)>>

(***************************************************************************)
(* Collaborators: portfolio locks, asset and NFT transfers, the scheduler  *)
(***************************************************************************)
\* T::Portfolio::ensure_portfolio_custody_and_permission
ensure_portfolio_custody_and_permission(portfolio, did) ==
    IF Custodian[portfolio] = did THEN "Ok" ELSE "UnauthorizedCustodian"

\* T::Portfolio::lock_tokens: only the part of the balance that is not locked can be locked
lock_tokens(st, portfolio, ticker, amount) ==
    IF st.PortfolioAssetBalances[portfolio][ticker]
         - st.PortfolioLockedAssets[portfolio][ticker] >= amount
    THEN Ok([st EXCEPT !.PortfolioLockedAssets[portfolio][ticker] = @ + amount])
    ELSE Err("InsufficientPortfolioBalance", st)

\* T::Portfolio::unlock_tokens
unlock_tokens(st, portfolio, ticker, amount) ==
    IF st.PortfolioLockedAssets[portfolio][ticker] >= amount
    THEN Ok([st EXCEPT !.PortfolioLockedAssets[portfolio][ticker] = @ - amount])
    ELSE Err("InsufficientTokensLocked", st)

\* T::Portfolio::lock_nft
lock_nft(st, portfolio, nft_id) ==
    IF st.PortfolioNFT[nft_id] # portfolio THEN Err("NFTNotFoundInPortfolio", st)
    ELSE IF nft_id \in st.PortfolioLockedNFT THEN Err("NFTAlreadyLocked", st)
    ELSE Ok([st EXCEPT !.PortfolioLockedNFT = @ \cup {nft_id}])

\* T::Portfolio::unlock_nft
unlock_nft(st, portfolio, nft_id) ==
    IF st.PortfolioNFT[nft_id] # portfolio THEN Err("NFTNotFoundInPortfolio", st)
    ELSE IF nft_id \notin st.PortfolioLockedNFT THEN Err("NFTIsNotLocked", st)
    ELSE Ok([st EXCEPT !.PortfolioLockedNFT = @ \ {nft_id}])

\* Asset::base_transfer: fails for a frozen asset and for a sender whose free
\* (not locked) balance is too small
base_transfer(st, from, to, ticker, amount) ==
    IF ticker \in Frozen THEN Err("InvalidTransfer", st)
    ELSE IF st.PortfolioAssetBalances[from][ticker]
              - st.PortfolioLockedAssets[from][ticker] < amount
    THEN Err("InsufficientPortfolioBalance", st)
    ELSE Ok([st EXCEPT !.PortfolioAssetBalances[from][ticker] = @ - amount,
                       !.PortfolioAssetBalances[to][ticker] = @ + amount])

\* Nft::base_nft_transfer: every NFT must be in the sender portfolio and not locked
base_nft_transfer(st, from, to, nfts) ==
    IF nfts.ticker \in Frozen THEN Err("InvalidNFTTransfer", st)
    ELSE IF \E i \in 1..Len(nfts.ids) :
                \/ st.PortfolioNFT[nfts.ids[i]] # from
                \/ nfts.ids[i] \in st.PortfolioLockedNFT
    THEN Err("InvalidNFTTransfer", st)
    ELSE Ok([st EXCEPT !.PortfolioNFT =
                [n \in DOMAIN @ |->
                    IF \E i \in 1..Len(nfts.ids) : nfts.ids[i] = n THEN to ELSE @[n]]])

\* InstructionId::execution_name: the encoding of the prefix and the id
execution_name(id) == <<"SETTLEMENT_INSTRUCTION_EXECUTION", id>>

\* A task of the scheduler: its name, its block, and the id in its call
\* execute_scheduled_instruction_v2 { id, .. }
Task(name, at, id) == [name |-> name, at |-> at, id |-> id]

\* The positions of the tasks of a name in an agenda
Named(agenda, name) == {i \in 1..Len(agenda) : agenda[i].name = name}

\* An agenda without the task at position i
WithoutTask(agenda, i) == [j \in 1..(Len(agenda) - 1) |-> agenda[IF j < i THEN j ELSE j + 1]]

\* T::Scheduler::schedule_named: one task per name, and only for a later block
schedule_named(st, name, at, id) ==
    IF Named(st.Agenda, name) # {} THEN Err("FailedToSchedule", st)
    ELSE IF at <= block_number THEN Err("TargetBlockNumberInPast", st)
    ELSE Ok([st EXCEPT !.Agenda = Append(@, Task(name, at, id))])

\* T::Scheduler::cancel_named
cancel_named(st, name) ==
    IF Named(st.Agenda, name) # {}
    THEN Ok([st EXCEPT !.Agenda = SelectSeq(@, LAMBDA t : t.name # name)])
    ELSE Err("NotFound", st)

(***************************************************************************)
(* Storage getters                                                         *)
(***************************************************************************)
instruction_status(st, id) == Get(st.InstructionStatuses, id, Unknown)

instruction_details(st, id) == Get(st.InstructionDetails, id, DefaultInstruction)

instruction_affirms_pending(st, id) == Get(st.InstructionAffirmsPending, id, 0)

instruction_leg_status(st, id, leg_id) ==
    Get(st.InstructionLegStatus, <<id, leg_id>>, PendingTokenLock)

user_affirmations(st, portfolio, id) ==
    Get(st.UserAffirmations, <<portfolio, id>>, "Unknown")

affirms_received(st, id, portfolio) ==
    Get(st.AffirmsReceived, <<id, portfolio>>, "Unknown")

\* Variant: no receipt is ever seen as used
receipts_never_used(st, signer, uid) == FALSE

receipts_used(st, signer, uid) == <<signer, uid>> \in st.ReceiptsUsed

venue_signers(st, venue_id, signer) == <<venue_id, signer>> \in st.VenueSigners

venue_filtering(st, ticker) == ticker \in st.VenueFiltering

venue_allow_list(st, ticker, venue_id) == <<ticker, venue_id>> \in st.VenueAllowList

\* The leg ids in the order of their storage keys: a key of the double map ends
\* with twox_64(leg_id) ++ leg_id, and twox_64 of 3, 4, 1, 2, 0 ascend in that order
TwoxOrder == <<3, 4, 1, 2, 0>>

\* iter_prefix of a double map: the entries of one instruction, in key order
IterPrefix(m, id) ==
    LET ks == SelectSeq(TwoxOrder, LAMBDA l : <<id, l>> \in DOMAIN m)
    IN  [i \in 1..Len(ks) |-> <<ks[i], m[<<id, ks[i]>>]>>]

RemovePrefix(m, id) == [k \in {x \in DOMAIN m : x[1] # id} |-> m[k]]

get_instruction_leg(st, id, leg_id) ==
    IF <<id, leg_id>> \in DOMAIN st.InstructionLegsV2
    THEN st.InstructionLegsV2[<<id, leg_id>>]
    ELSE IF <<id, leg_id>> \in DOMAIN st.InstructionLegs
    THEN LegIntoV2(st.InstructionLegs[<<id, leg_id>>])
    ELSE LegIntoV2(Leg("", "", "", 0))

get_instruction_legs(st, id) ==
    LET instruction_legs == IterPrefix(st.InstructionLegsV2, id)
    IN  IF instruction_legs = <<>>
        THEN LET old == IterPrefix(st.InstructionLegs, id)
             IN  [i \in 1..Len(old) |-> <<old[i][1], LegIntoV2(old[i][2])>>]
        ELSE instruction_legs

\* Variant: the legs are left in the order of storage
SortByLegId_unsorted(legs) == legs

\* sort_by_key(|leg_id_leg| leg_id_leg.0)
RECURSIVE SortByLegId(_)
SortByLegId(legs) ==
    IF legs = <<>> THEN <<>>
    ELSE LET i == CHOOSE i \in 1..Len(legs) : \A j \in 1..Len(legs) : legs[i][1] <= legs[j][1]
         IN  <<legs[i]>> \o SortByLegId(SubSeq(legs, 1, i - 1) \o SubSeq(legs, i + 1, Len(legs)))

(***************************************************************************)
(* Runtime configuration                                                   *)
(***************************************************************************)
\* The limits of the Config trait.  A runtime sets their values; here each is 2,
\* so that an instruction can hold two fungible legs or a leg of two NFTs and a
\* third is refused
MaxNumberOfFungibleAssets == 2
MaxNumberOfNFTsPerLeg == 2
MaxNumberOfNFTs == 2

\* pallet_asset::Tokens: the tickers that exist as on-chain assets
Tokens == {"T1", NFTTicker}

(***************************************************************************)
(* Internal functions of the pallet                                        *)
(***************************************************************************)
RECURSIVE LockNfts(_, _, _, _)
LockNfts(st, portfolio, ids, i) ==
    IF i > Len(ids) THEN Ok(st)
    ELSE LET r == lock_nft(st, portfolio, ids[i])
         IN  IF r.err # "Ok" THEN r ELSE LockNfts(r.st, portfolio, ids, i + 1)

lock_via_leg(st, leg) ==
    IF leg.asset.kind = "Fungible"
    THEN lock_tokens(st, leg.from, leg.asset.ticker, leg.asset.amount)
    ELSE with_transaction(st, LockNfts(st, leg.from, leg.asset.ids, 1))

RECURSIVE UnlockNfts(_, _, _, _)
UnlockNfts(st, portfolio, ids, i) ==
    IF i > Len(ids) THEN Ok(st)
    ELSE LET r == unlock_nft(st, portfolio, ids[i])
         IN  IF r.err # "Ok" THEN r ELSE UnlockNfts(r.st, portfolio, ids, i + 1)

unlock_via_leg(st, leg) ==
    IF leg.asset.kind = "Fungible"
    THEN unlock_tokens(st, leg.from, leg.asset.ticker, leg.asset.amount)
    ELSE with_transaction(st, UnlockNfts(st, leg.from, leg.asset.ids, 1))

\* Variant: any caller may use any venue id
venue_unchecked(st, id, did) == "Ok"

venue_for_management(st, id, did) ==
    IF id \notin DOMAIN st.VenueInfo THEN "InvalidVenue"
    ELSE IF st.VenueInfo[id].creator # did THEN "Unauthorized"
    ELSE "Ok"

\* Checks the allow list the first time a ticker is met; val is the new ticker set
ensure_venue_filtering(st, tickers, ticker, venue_id) ==
    IF ticker \notin tickers /\ venue_filtering(st, ticker)
         /\ ~venue_allow_list(st, ticker, venue_id)
    THEN [err |-> "UnauthorizedVenue", val |-> tickers \cup {ticker}]
    ELSE [err |-> "Ok", val |-> tickers \cup {ticker}]

\* Nft::ensure_within_nfts_transfer_limits
ensure_within_nfts_transfer_limits(nfts) ==
    IF Len(nfts.ids) > MaxNumberOfNFTsPerLeg THEN "MaxNumberOfNFTsPerLegExceeded"
    ELSE IF Len(nfts.ids) = 0 THEN "ZeroCount"
    ELSE "Ok"

\* Nft::ensure_no_duplicate_nfts
ensure_no_duplicate_nfts(nfts) ==
    IF \E i, j \in 1..Len(nfts.ids) : i # j /\ nfts.ids[i] = nfts.ids[j]
    THEN "DuplicatedNFTId" ELSE "Ok"

RECURSIVE EnsureValidLegsLoop(_, _, _, _, _)
EnsureValidLegsLoop(st, legs, venue_id, i, acc) ==
    IF i > Len(legs) THEN [err |-> "Ok", val |-> acc]
    ELSE LET leg == legs[i]
             vf == ensure_venue_filtering(st, acc.tickers, leg.asset.ticker, venue_id)
             next == [parties |-> acc.parties \cup {leg.from, leg.to},
                      tickers |-> vf.val,
                      fungible |-> acc.fungible
                                    + (IF leg.asset.kind = "Fungible" THEN 1 ELSE 0),
                      non_fungible |-> acc.non_fungible
                                    + (IF leg.asset.kind = "Fungible" THEN 0
                                       ELSE Len(leg.asset.ids))]
         IN  IF leg.from = leg.to THEN [err |-> "SameSenderReceiver", val |-> acc]
             ELSE IF leg.asset.kind = "Fungible" /\ ~(leg.asset.amount > 0)
             THEN [err |-> "ZeroAmount", val |-> acc]
             ELSE IF leg.asset.kind = "NonFungible"
                       /\ ensure_within_nfts_transfer_limits(leg.asset) # "Ok"
             THEN [err |-> ensure_within_nfts_transfer_limits(leg.asset), val |-> acc]
             ELSE IF vf.err # "Ok" THEN [err |-> vf.err, val |-> acc]
             ELSE IF leg.asset.kind = "NonFungible"
                       /\ ensure_no_duplicate_nfts(leg.asset) # "Ok"
             THEN [err |-> ensure_no_duplicate_nfts(leg.asset), val |-> acc]
             ELSE EnsureValidLegsLoop(st, legs, venue_id, i + 1, next)

\* val is the InstructionInfo: the parties and the transfer counts
ensure_valid_legs(st, legs, venue_id) ==
    LET r == EnsureValidLegsLoop(st, legs, venue_id, 1,
                 [parties |-> {}, tickers |-> {}, fungible |-> 0, non_fungible |-> 0])
    IN  IF r.err # "Ok" THEN r
        ELSE IF ~(r.val.non_fungible <= MaxNumberOfNFTs)
        THEN [err |-> "MaxNumberOfNFTsExceeded", val |-> r.val]
        ELSE IF ~(r.val.fungible <= MaxNumberOfFungibleAssets)
        THEN [err |-> "InstructionHasTooManyLegs", val |-> r.val]
        ELSE r

\* Variant: the task is given to the scheduler without a name to refuse it by
schedule_instruction_unnamed(st, id, execution_at) ==
    IF execution_at <= block_number THEN st
    ELSE [st EXCEPT !.Agenda = Append(@, Task(execution_name(id), execution_at, id))]

\* On a scheduler error only the SchedulingFailed event is deposited
schedule_instruction(st, id, execution_at) ==
    LET r == schedule_named(st, execution_name(id), execution_at, id)
    IN  IF r.err = "Ok" THEN r.st ELSE st

\* Variant: the execution is scheduled whatever the settlement type is
maybe_schedule_any_type(st, affirms_pending, id) ==
    IF affirms_pending = 0 THEN schedule_instruction(st, id, block_number + 1) ELSE st

\* Variant: the last affirmation schedules nothing
maybe_schedule_never(st, affirms_pending, id) == st

maybe_schedule_instruction(st, affirms_pending, id) ==
    IF affirms_pending = 0
         /\ instruction_details(st, id).settlement_type = SettleOnAffirmation
    THEN schedule_instruction(st, id, block_number + 1)
    ELSE st

\* try_next_post on a counter: the id is the stored value, the stored value
\* becomes the next one, and a value that has no next one is an error
try_next_post(counter) ==
    IF counter >= U64Max THEN [err |-> "CounterOverflow", val |-> counter, next |-> counter]
    ELSE [err |-> "Ok", val |-> counter, next |-> counter + 1]

\* Variant: the legs written under ids 1..n
InsertLegsFromOne(m, id, legs) ==
    [k \in DOMAIN m \cup {<<id, i>> : i \in 1..Len(legs)} |->
        IF k[1] = id /\ k[2] \in 1..Len(legs) THEN legs[k[2]] ELSE m[k]]

\* The legs written to one of the two leg tables under ids 0..n-1
InsertLegs(m, id, legs) ==
    [k \in DOMAIN m \cup {<<id, i - 1>> : i \in 1..Len(legs)} |->
        IF k[1] = id /\ k[2] + 1 \in 1..Len(legs) THEN legs[k[2] + 1] ELSE m[k]]

RECURSIVE LegsTryFromV2(_, _)
LegsTryFromV2(legs, i) ==
    IF i > Len(legs) THEN [err |-> "Ok", val |-> <<>>]
    ELSE LET c == LegTryFromV2(legs[i])
             rest == LegsTryFromV2(legs, i + 1)
         IN  IF c.err # "Ok" THEN [err |-> c.err, val |-> <<>>]
             ELSE IF rest.err # "Ok" THEN rest
             ELSE [err |-> "Ok", val |-> <<c.val>> \o rest.val]

\* The writes of base_add_instruction, once every check has passed
AddInstructionWrites(st, instruction_id, next_id, parties, venue_id, settlement_type, trade_date, value_date, memo) ==
    Let([st EXCEPT
           !.InstructionCounter = next_id,
           !.InstructionStatuses = Put(@, instruction_id, Pending),
           !.UserAffirmations =
               [k \in DOMAIN @ \cup {<<p, instruction_id>> : p \in parties} |->
                   IF k[2] = instruction_id /\ k[1] \in parties THEN "Pending" ELSE @[k]]],
        LAMBDA st1 :
          [(IF settlement_type.t = "SettleOnBlock"
            THEN schedule_instruction(st1, instruction_id, settlement_type.b)
            ELSE st1) EXCEPT
              !.InstructionDetails =
                  Put(@, instruction_id,
                      [venue_id |-> venue_id, settlement_type |-> settlement_type,
                       trade_date |-> trade_date, value_date |-> value_date]),
              !.InstructionAffirmsPending = Put(@, instruction_id, Cardinality(parties)),
              !.VenueInstructions = @ \cup {<<venue_id, instruction_id>>},
              !.InstructionMemos = IF memo THEN @ \cup {instruction_id} ELSE @])

\* The legs go to the deprecated table when the call is a deprecated one
AddInstructionLegs(st, st3, instruction_id, legs, old, emit_deprecated_event) ==
    IF emit_deprecated_event
    THEN IF old.err # "Ok" THEN Err("InvalidLegAsset", st3)
         ELSE OkVal([st3 EXCEPT !.InstructionLegs = InsertLegs(@, instruction_id, old.val)],
                    instruction_id)
    ELSE OkVal([st3 EXCEPT !.InstructionLegsV2 = InsertLegs(@, instruction_id, legs)],
               instruction_id)

base_add_instruction(st, did, venue_id, settlement_type, trade_date, value_date, legs, memo, emit_deprecated_event) ==
    IF settlement_type.t = "SettleOnBlock" /\ ~(settlement_type.b > block_number)
    THEN Err("SettleOnPastBlock", st)
    ELSE IF trade_date # 0 /\ value_date # 0 /\ ~(value_date >= trade_date)
    THEN Err("InstructionDatesInvalid", st)
    ELSE Let(venue_for_management(st, venue_id, did), LAMBDA venue :
         IF venue # "Ok" THEN Err(venue, st)
         ELSE Let(ensure_valid_legs(st, legs, venue_id), LAMBDA info :
              IF info.err # "Ok" THEN Err(info.err, st)
              ELSE Let(try_next_post(st.InstructionCounter), LAMBDA ctr :
                   IF ctr.err # "Ok" THEN Err(ctr.err, st)
                   ELSE AddInstructionLegs(st,
                            AddInstructionWrites(st, ctr.val, ctr.next, info.val.parties,
                                venue_id, settlement_type, trade_date, value_date, memo),
                            ctr.val, legs, LegsTryFromV2(legs, 1),
                            emit_deprecated_event))))

RECURSIVE EnsurePortfoliosLoop(_, _, _, _, _)
EnsurePortfoliosLoop(st, id, ps, custodian, expected_statuses) ==
    IF ps = <<>> THEN "Ok"
    ELSE IF ensure_portfolio_custody_and_permission(Head(ps), custodian) # "Ok"
    THEN ensure_portfolio_custody_and_permission(Head(ps), custodian)
    ELSE IF user_affirmations(st, Head(ps), id) \notin expected_statuses
    THEN "UnexpectedAffirmationStatus"
    ELSE EnsurePortfoliosLoop(st, id, Tail(ps), custodian, expected_statuses)

\* Variant: custody is checked, the affirmation status is not
ensure_portfolios_any_status(st, id, portfolios, custodian, expected_statuses) ==
    EnsurePortfoliosLoop(st, id, PortfolioSeq(portfolios), custodian,
                         {"Unknown", "Pending", "Affirmed"})

ensure_portfolios_and_affirmation_status(st, id, portfolios, custodian, expected_statuses) ==
    EnsurePortfoliosLoop(st, id, PortfolioSeq(portfolios), custodian, expected_statuses)

\* The number of fungible and non fungible transfers in a list of <<leg_id, leg>>
get_transfer_data(legs_v2) ==
    LET F == {i \in 1..Len(legs_v2) : legs_v2[i][2].asset.kind = "Fungible"}
        N == (1..Len(legs_v2)) \ F
        RECURSIVE Sum(_)
        Sum(I) == IF I = {} THEN 0
                  ELSE LET i == CHOOSE i \in I : TRUE
                       IN  Len(legs_v2[i][2].asset.ids) + Sum(I \ {i})
    IN  IF \E i \in N : Len(legs_v2[i][2].asset.ids) > MaxNumberOfNFTsPerLeg
        THEN [err |-> "MaxNumberOfNFTsPerLegExceeded", fungible |-> 0, non_fungible |-> 0]
        ELSE [err |-> "Ok", fungible |-> Cardinality(F), non_fungible |-> Sum(N)]

\* nfts_transfers is -1 for None
ensure_valid_input_cost(transfer_data, fungible_transfers, nfts_transfers) ==
    IF transfer_data.non_fungible > 0 /\ nfts_transfers = -1
    THEN "DeprecatedCallOnV2Instruction"
    ELSE IF transfer_data.non_fungible > 0 /\ ~(transfer_data.non_fungible <= nfts_transfers)
    THEN "NumberOfTransferredNFTsUnderestimated"
    ELSE IF ~(transfer_data.fungible <= fungible_transfers) THEN "LegCountTooSmall"
    ELSE "Ok"

filtered_legs(st, id, portfolio_set, fungible_transfers, nfts_transfers) ==
    LET instruction_legs == get_instruction_legs(st, id)
        legs_from_set == SelectSeq(instruction_legs, LAMBDA l : l[2].from \in portfolio_set)
        transfer_data == get_transfer_data(legs_from_set)
        cost == ensure_valid_input_cost(transfer_data, fungible_transfers, nfts_transfers)
    IN  IF transfer_data.err # "Ok"
        THEN [err |-> transfer_data.err, total |-> 0, legs |-> <<>>]
        ELSE IF cost # "Ok" THEN [err |-> cost, total |-> 0, legs |-> <<>>]
        ELSE [err |-> "Ok", total |-> Len(instruction_legs), legs |-> legs_from_set]

ensure_instruction_validity(st, id, is_execute) ==
    LET details == instruction_details(st, id)
        t == details.settlement_type
    IN  IF instruction_status(st, id) = Unknown
        THEN [err |-> "UnknownInstruction", val |-> details]
        ELSE IF t.t = "SettleOnBlock" /\ is_execute /\ ~(t.b <= block_number)
        THEN [err |-> "InstructionSettleBlockNotReached", val |-> details]
        ELSE IF t.t = "SettleOnBlock" /\ ~is_execute /\ ~(t.b > block_number)
        THEN [err |-> "InstructionSettleBlockPassed", val |-> details]
        ELSE IF t.t = "SettleManual" /\ is_execute /\ ~(t.b <= block_number)
        THEN [err |-> "InstructionSettleBlockNotReached", val |-> details]
        ELSE [err |-> "Ok", val |-> details]

\* The closure of unsafe_affirm_instruction: lock each leg and mark it
RECURSIVE AffirmLockLoop(_, _, _, _)
AffirmLockLoop(st, id, legs, i) ==
    IF i > Len(legs) THEN Ok(st)
    ELSE LET r == lock_via_leg(st, legs[i][2])
         IN  IF r.err # "Ok" THEN r
             ELSE AffirmLockLoop(
                    [r.st EXCEPT !.InstructionLegStatus =
                        Put(@, <<id, legs[i][1]>>, ExecutionPending)],
                    id, legs, i + 1)

\* UserAffirmations and AffirmsReceived of the portfolios set to Affirmed
MarkAffirmed(st, id, portfolios) ==
    [st EXCEPT
       !.UserAffirmations =
           [k \in DOMAIN @ \cup {<<p, id>> : p \in portfolios} |->
               IF k[2] = id /\ k[1] \in portfolios THEN "Affirmed" ELSE @[k]],
       !.AffirmsReceived =
           [k \in DOMAIN @ \cup {<<id, p>> : p \in portfolios} |->
               IF k[1] = id /\ k[2] \in portfolios THEN "Affirmed" ELSE @[k]]]

\* Variant: the pending counter goes down by one for the whole set
AffirmWritesByOne(st, id, portfolios) ==
    [MarkAffirmed(st, id, portfolios) EXCEPT !.InstructionAffirmsPending =
        Put(@, id, SaturatingSub(instruction_affirms_pending(st, id), 1))]

\* The affirmation statuses and the pending counter, after the locks
AffirmWrites(st, id, portfolios) ==
    [MarkAffirmed(st, id, portfolios) EXCEPT !.InstructionAffirmsPending =
        Put(@, id, SaturatingSub(instruction_affirms_pending(st, id),
                                 Cardinality(portfolios)))]

unsafe_affirm_instruction(st, did, id, portfolios, fungible_transfers, nfts_transferred) ==
    Let(ensure_portfolios_and_affirmation_status(st, id, portfolios, did, {"Pending"}),
        LAMBDA chk :
    IF chk # "Ok" THEN Err(chk, st)
    ELSE Let(filtered_legs(st, id, portfolios, fungible_transfers, nfts_transferred),
             LAMBDA fl :
         IF fl.err # "Ok" THEN Err(fl.err, st)
         ELSE Let(with_transaction(st, AffirmLockLoop(st, id, fl.legs, 1)),
                  LAMBDA locked :
              IF locked.err # "Ok" THEN Err(locked.err, locked.st)
              ELSE OkVal(AffirmWrites(locked.st, id, portfolios), fl.total))))

base_affirm_instruction(st, did, id, portfolios, fungible_transfers, nfts_transferred) ==
    Let(ensure_instruction_validity(st, id, FALSE), LAMBDA v :
        IF v.err # "Ok" THEN Err(v.err, st)
        ELSE unsafe_affirm_instruction(st, did, id, portfolios, fungible_transfers,
                                       nfts_transferred))

\* The scheduling that follows an affirmation that succeeded
ThenMaybeSchedule(r, id) ==
    IF r.err # "Ok" THEN r
    ELSE Ok(maybe_schedule_instruction(r.st, instruction_affirms_pending(r.st, id), id))

affirm_and_maybe_schedule_instruction(st, did, id, portfolios, fungible_transfers, nfts_transfers) ==
    ThenMaybeSchedule(
        base_affirm_instruction(st, did, id, portfolios, fungible_transfers,
                                nfts_transfers), id)

(***************************************************************************)
(* Receipts.  A signature is modelled by what was signed and by whom: it   *)
(* verifies when the signer is the receipt's signer and the signed message *)
(* is the receipt's message.                                               *)
(***************************************************************************)
ReceiptMsg(uid, from, to, asset, amount) ==
    [receipt_uid |-> uid, from |-> from, to |-> to, asset |-> asset, amount |-> amount]

\* Variant: every signature verifies
verify_any(signature, msg, signer) == TRUE

verify(signature, msg, signer) == signature.by = signer /\ signature.msg = msg

RECURSIVE ValidateReceipts(_, _, _, _, _, _)
ValidateReceipts(st, id, venue_id, receipt_details, portfolios_set, i) ==
    IF i > Len(receipt_details) THEN "Ok"
    ELSE LET receipt == receipt_details[i]
             leg == get_instruction_leg(st, id, receipt.leg_id)
             ta == ticker_and_amount(leg.asset)
             msg == ReceiptMsg(receipt.receipt_uid, leg.from, leg.to, ta[1], ta[2])
         IN  IF ~venue_signers(st, venue_id, receipt.signer) THEN "UnauthorizedSigner"
             ELSE IF receipts_used(st, receipt.signer, receipt.receipt_uid)
             THEN "ReceiptAlreadyClaimed"
             ELSE IF leg.asset.kind = "NonFungible" THEN "ReceiptForNonFungibleAsset"
             ELSE IF leg.from \notin portfolios_set THEN "PortfolioMismatch"
             ELSE IF ta[1] \in Tokens THEN "UnauthorizedVenue"
             ELSE IF ~verify(receipt.signature, msg, receipt.signer) THEN "InvalidSignature"
             ELSE ValidateReceipts(st, id, venue_id, receipt_details, portfolios_set, i + 1)

\* Variant: a leg with receipts is marked with the last of them
RECURSIVE AffirmReceiptsLoopLast(_, _, _, _, _)
AffirmReceiptsLoopLast(st, id, legs, receipt_details, i) ==
    IF i > Len(legs) THEN Ok(st)
    ELSE LET leg_id == legs[i][1]
             R == {j \in 1..Len(receipt_details) : receipt_details[j].leg_id = leg_id}
             receipt == receipt_details[CHOOSE j \in R : \A k \in R : j >= k]
             r == lock_via_leg(st, legs[i][2])
         IN  IF R # {}
             THEN AffirmReceiptsLoopLast(
                    [st EXCEPT !.InstructionLegStatus =
                        Put(@, <<id, leg_id>>,
                            ExecutionToBeSkipped(receipt.signer, receipt.receipt_uid))],
                    id, legs, receipt_details, i + 1)
             ELSE IF r.err # "Ok" THEN Err("FailedToLockTokens", r.st)
             ELSE AffirmReceiptsLoopLast(
                    [r.st EXCEPT !.InstructionLegStatus =
                        Put(@, <<id, leg_id>>, ExecutionPending)],
                    id, legs, receipt_details, i + 1)

\* The closure of base_affirm_with_receipts: a leg with a receipt is marked to be
\* skipped, every other leg is locked
RECURSIVE AffirmReceiptsLoop(_, _, _, _, _)
AffirmReceiptsLoop(st, id, legs, receipt_details, i) ==
    IF i > Len(legs) THEN Ok(st)
    ELSE LET leg_id == legs[i][1]
             R == {j \in 1..Len(receipt_details) : receipt_details[j].leg_id = leg_id}
             receipt == receipt_details[CHOOSE j \in R : \A k \in R : j <= k]
             r == lock_via_leg(st, legs[i][2])
         IN  IF R # {}
             THEN AffirmReceiptsLoop(
                    [st EXCEPT !.InstructionLegStatus =
                        Put(@, <<id, leg_id>>,
                            ExecutionToBeSkipped(receipt.signer, receipt.receipt_uid))],
                    id, legs, receipt_details, i + 1)
             ELSE IF r.err # "Ok" THEN Err("FailedToLockTokens", r.st)
             ELSE AffirmReceiptsLoop(
                    [r.st EXCEPT !.InstructionLegStatus =
                        Put(@, <<id, leg_id>>, ExecutionPending)],
                    id, legs, receipt_details, i + 1)

\* The (signer, receipt_uid) pairs of the receipts
ReceiptIds(receipt_details) ==
    {<<receipt_details[i].signer, receipt_details[i].receipt_uid>> :
        i \in 1..Len(receipt_details)}

base_affirm_with_receipts(st, did, id, receipt_details, portfolios, fungible_transfers) ==
    Let(ensure_instruction_validity(st, id, FALSE), LAMBDA v :
    IF v.err # "Ok" THEN Err(v.err, st)
    ELSE IF Cardinality(ReceiptIds(receipt_details)) # Len(receipt_details)
    THEN Err("ReceiptAlreadyClaimed", st)
    ELSE Let(ensure_portfolios_and_affirmation_status(st, id, portfolios, did, {"Pending"}),
             LAMBDA chk :
    IF chk # "Ok" THEN Err(chk, st)
    ELSE Let(ValidateReceipts(st, id, v.val.venue_id, receipt_details, portfolios, 1),
             LAMBDA val :
    IF val # "Ok" THEN Err(val, st)
    ELSE Let(filtered_legs(st, id, portfolios, fungible_transfers, -1), LAMBDA fl :
    IF fl.err # "Ok" THEN Err(fl.err, st)
    ELSE Let(with_transaction(st, AffirmReceiptsLoop(st, id, fl.legs, receipt_details, 1)),
             LAMBDA locked :
    IF locked.err # "Ok" THEN Err(locked.err, locked.st)
    ELSE OkVal(AffirmWrites([locked.st EXCEPT
                                !.ReceiptsUsed = @ \cup ReceiptIds(receipt_details)],
                            id, portfolios),
               fl.total))))))

affirm_with_receipts_and_maybe_schedule_instruction(st, did, id, receipt_details, portfolios, fungible_transfers) ==
    ThenMaybeSchedule(
        base_affirm_with_receipts(st, did, id, receipt_details, portfolios,
                                  fungible_transfers), id)

(***************************************************************************)
(* Execution                                                               *)
(***************************************************************************)
RECURSIVE unsafe_unclaim_receipts(_, _, _)
unsafe_unclaim_receipts(st, id, legs) ==
    IF legs = <<>> THEN st
    ELSE LET status == instruction_leg_status(st, id, Head(legs)[1])
         IN  unsafe_unclaim_receipts(
                IF status.s = "ExecutionToBeSkipped"
                THEN [st EXCEPT !.ReceiptsUsed = @ \ {<<status.signer, status.uid>>}]
                ELSE st,
                id, Tail(legs))

\* The result of unlock_via_leg is dropped (let _ = ...)
RECURSIVE unchecked_release_locks(_, _, _)
unchecked_release_locks(st, id, instruction_legs) ==
    IF instruction_legs = <<>> THEN st
    ELSE unchecked_release_locks(
            IF instruction_leg_status(st, id, Head(instruction_legs)[1]) = ExecutionPending
            THEN unlock_via_leg(st, Head(instruction_legs)[2]).st
            ELSE st,
            id, Tail(instruction_legs))

\* The transfer loop: Commit, or Rollback with the id of the leg that failed
RECURSIVE TransferPendingLegs(_, _, _, _)
TransferPendingLegs(st, id, legs, i) ==
    IF i > Len(legs) THEN [outcome |-> "Commit", leg |-> -1, st |-> st]
    ELSE LET leg == legs[i][2]
             r == IF leg.asset.kind = "Fungible"
                  THEN base_transfer(st, leg.from, leg.to, leg.asset.ticker, leg.asset.amount)
                  ELSE base_nft_transfer(st, leg.from, leg.to, leg.asset)
         IN  IF instruction_leg_status(st, id, legs[i][1]) = ExecutionPending
             THEN IF r.err # "Ok"
                  THEN [outcome |-> "Rollback", leg |-> legs[i][1], st |-> st]
                  ELSE TransferPendingLegs(r.st, id, legs, i + 1)
             ELSE TransferPendingLegs(st, id, legs, i + 1)

release_asset_locks_and_transfer_pending_legs(st, instruction_id, instruction_legs) ==
    TransferPendingLegs(unchecked_release_locks(st, instruction_id, instruction_legs),
                        instruction_id, instruction_legs, 1)

\* Variant: a storage transaction that keeps what its closure wrote whatever the
\* outcome is
storage_kept_on_rollback(before, o) == o

\* frame_support::storage::with_transaction: the outcome says whether the storage
\* of the closure is kept
frame_storage_with_transaction(before, o) ==
    IF o.outcome = "Commit" THEN o ELSE [o EXCEPT !.st = before]

\* Variant: the execution does not look at the venue filtering
UnauthorizedTicker_none(st, venue_id, legs) == ""

\* The first ticker, in leg order, that has filtering enabled without the venue
\* on its allow list ("" if none); each ticker is checked once
UnauthorizedTicker(st, venue_id, legs) ==
    LET bad == {i \in 1..Len(legs) :
                   LET ticker == ticker_and_amount(legs[i][2].asset)[1]
                   IN  /\ venue_filtering(st, ticker)
                       /\ ~venue_allow_list(st, ticker, venue_id)}
    IN  IF bad = {} THEN ""
        ELSE ticker_and_amount(legs[CHOOSE i \in bad : \A j \in bad : i <= j][2].asset)[1]

\* The result of the transfers: on Rollback the receipts are unclaimed and the
\* error carries the leg that failed
TransferResult(t, instruction_id, instruction_legs) ==
    IF t.leg = -1
    THEN OkVal(t.st, Len(instruction_legs))
    ELSE [err |-> "InstructionFailed",
          st |-> unsafe_unclaim_receipts(t.st, instruction_id, instruction_legs),
          val |-> t.leg]

\* Variant: the execution without the check of the pending counter
execute_instruction_ungated(st, instruction_id) ==
    IF ~(instruction_status(st, instruction_id) = Pending)
    THEN [err |-> "InstructionNotPending", st |-> st, val |-> -1]
    ELSE Let(SortByLegId(get_instruction_legs(st, instruction_id)),
             LAMBDA instruction_legs :
         IF UnauthorizedTicker(st, instruction_details(st, instruction_id).venue_id,
                               instruction_legs) # ""
         THEN [err |-> "UnauthorizedVenue", st |-> st, val |-> -1]
         ELSE TransferResult(
                  frame_storage_with_transaction(st,
                      release_asset_locks_and_transfer_pending_legs(
                          st, instruction_id, instruction_legs)),
                  instruction_id, instruction_legs))

\* Variant: a Failed instruction is executed as a Pending one is
execute_instruction_failed_too(st, instruction_id) ==
    IF ~(instruction_affirms_pending(st, instruction_id) = 0)
    THEN [err |-> "InstructionFailed", st |-> st, val |-> -1]
    ELSE IF instruction_status(st, instruction_id) \notin {Pending, Failed}
    THEN [err |-> "InstructionNotPending", st |-> st, val |-> -1]
    ELSE Let(SortByLegId(get_instruction_legs(st, instruction_id)),
             LAMBDA instruction_legs :
         IF UnauthorizedTicker(st, instruction_details(st, instruction_id).venue_id,
                               instruction_legs) # ""
         THEN [err |-> "UnauthorizedVenue", st |-> st, val |-> -1]
         ELSE TransferResult(
                  frame_storage_with_transaction(st,
                      release_asset_locks_and_transfer_pending_legs(
                          st, instruction_id, instruction_legs)),
                  instruction_id, instruction_legs))

\* val: the number of legs on success, the failed leg (or -1) on error
execute_instruction(st, instruction_id) ==
    IF ~(instruction_affirms_pending(st, instruction_id) = 0)
    THEN [err |-> "InstructionFailed", st |-> st, val |-> -1]
    ELSE IF ~(instruction_status(st, instruction_id) = Pending)
    THEN [err |-> "InstructionNotPending", st |-> st, val |-> -1]
    ELSE Let(SortByLegId(get_instruction_legs(st, instruction_id)),
             LAMBDA instruction_legs :
         IF UnauthorizedTicker(st, instruction_details(st, instruction_id).venue_id,
                               instruction_legs) # ""
         THEN [err |-> "UnauthorizedVenue", st |-> st, val |-> -1]
         ELSE TransferResult(
                  frame_storage_with_transaction(st,
                      release_asset_locks_and_transfer_pending_legs(
                          st, instruction_id, instruction_legs)),
                  instruction_id, instruction_legs))

prune_instruction(st, id, executed) ==
    LET legs == get_instruction_legs(st, id)
        details == instruction_details(st, id)
        counter_parties == {legs[i][2].from : i \in 1..Len(legs)}
                             \cup {legs[i][2].to : i \in 1..Len(legs)}
        \* drain_instruction_legs: the old table is drained only when the new one is empty
        v2_empty == IterPrefix(st.InstructionLegsV2, id) = <<>>
    IN  [st EXCEPT
           !.InstructionLegsV2 = RemovePrefix(@, id),
           !.InstructionLegs = IF v2_empty THEN RemovePrefix(@, id) ELSE @,
           !.InstructionDetails = Del(@, id),
           !.VenueInstructions = @ \ {<<details.venue_id, id>>},
           !.InstructionLegStatus = RemovePrefix(@, id),
           !.InstructionAffirmsPending = Del(@, id),
           !.AffirmsReceived = RemovePrefix(@, id),
           !.InstructionStatuses =
               Put(@, id, IF executed THEN Success(block_number) ELSE Rejected(block_number)),
           !.UserAffirmations =
               [k \in {x \in DOMAIN @ : ~(x[2] = id /\ x[1] \in counter_parties)} |-> @[k]]]

\* Variant: an executed instruction is left in storage
Retryable_unpruned(result, id) ==
    IF result.err = "Ok" THEN result
    ELSE IF id \in DOMAIN result.st.InstructionDetails
    THEN [result EXCEPT !.st.InstructionStatuses = Put(@, id, Failed)]
    ELSE result

\* Variant: a failed execution leaves the status as it was
Retryable_unmarked(result, id) ==
    IF result.err = "Ok"
    THEN [result EXCEPT !.st = prune_instruction(result.st, id, TRUE)]
    ELSE result

\* What execute_instruction_retryable does with the result of the execution
Retryable(result, id) ==
    IF result.err = "Ok"
    THEN [result EXCEPT !.st = prune_instruction(result.st, id, TRUE)]
    ELSE IF id \in DOMAIN result.st.InstructionDetails
    THEN [result EXCEPT !.st.InstructionStatuses = Put(@, id, Failed)]
    ELSE result

execute_instruction_retryable(st, id) == Retryable(execute_instruction(st, id), id)

\* The error is turned into the FailedToExecuteInstruction event: val is that
\* event, as the error and the leg it names
ScheduledResult(r) == [err |-> "Ok", st |-> r.st, val |-> [err |-> r.err, leg |-> r.val]]

base_execute_scheduled_instruction(st, id) ==
    ScheduledResult(execute_instruction_retryable(st, id))

(***************************************************************************)
(* Withdrawal, rejection, venue signers                                    *)
(***************************************************************************)
\* Variant: a withdrawal leaves the statuses of the legs as they are
RECURSIVE WithdrawLoop_status_kept(_, _, _, _)
WithdrawLoop_status_kept(st, id, legs, i) ==
    IF i > Len(legs) THEN Ok(st)
    ELSE LET leg_id == legs[i][1]
             status == instruction_leg_status(st, id, leg_id)
             u == unlock_via_leg(st, legs[i][2])
             st1 == IF status.s = "ExecutionToBeSkipped"
                    THEN [st EXCEPT !.ReceiptsUsed = @ \ {<<status.signer, status.uid>>}]
                    ELSE u.st
         IN  IF status.s = "ExecutionPending" /\ u.err # "Ok" THEN Err(u.err, st)
             ELSE IF status.s = "PendingTokenLock" THEN Err("InstructionNotAffirmed", st)
             ELSE WithdrawLoop_status_kept(st1, id, legs, i + 1)

RECURSIVE WithdrawLoop(_, _, _, _)
WithdrawLoop(st, id, legs, i) ==
    IF i > Len(legs) THEN Ok(st)
    ELSE LET leg_id == legs[i][1]
             status == instruction_leg_status(st, id, leg_id)
             u == unlock_via_leg(st, legs[i][2])
             st1 == IF status.s = "ExecutionToBeSkipped"
                    THEN [st EXCEPT !.ReceiptsUsed = @ \ {<<status.signer, status.uid>>}]
                    ELSE u.st
         IN  IF status.s = "ExecutionPending" /\ u.err # "Ok" THEN Err(u.err, st)
             ELSE IF status.s = "PendingTokenLock" THEN Err("InstructionNotAffirmed", st)
             ELSE WithdrawLoop(
                    [st1 EXCEPT !.InstructionLegStatus = Put(@, <<id, leg_id>>, PendingTokenLock)],
                    id, legs, i + 1)

\* Variant: a withdrawal leaves the pending counter as it is
WithdrawWrites_counter_kept(st, id, portfolios) ==
    [st EXCEPT
       !.UserAffirmations =
           [k \in DOMAIN @ \cup {<<p, id>> : p \in portfolios} |->
               IF k[2] = id /\ k[1] \in portfolios THEN "Pending" ELSE @[k]],
       !.AffirmsReceived =
           [k \in {x \in DOMAIN @ : ~(x[1] = id /\ x[2] \in portfolios)} |-> @[k]]]

\* The affirmation statuses and the pending counter, after the unlocks
WithdrawWrites(st, id, portfolios) ==
    [st EXCEPT
       !.UserAffirmations =
           [k \in DOMAIN @ \cup {<<p, id>> : p \in portfolios} |->
               IF k[2] = id /\ k[1] \in portfolios THEN "Pending" ELSE @[k]],
       !.AffirmsReceived =
           [k \in {x \in DOMAIN @ : ~(x[1] = id /\ x[2] \in portfolios)} |-> @[k]],
       !.InstructionAffirmsPending =
           Put(@, id, instruction_affirms_pending(st, id) + Cardinality(portfolios))]

unsafe_withdraw_instruction_affirmation(st, did, id, portfolios, fungible_transfers, nfts_transfers) ==
    Let(ensure_portfolios_and_affirmation_status(st, id, portfolios, did, {"Affirmed"}),
        LAMBDA chk :
    IF chk # "Ok" THEN Err(chk, st)
    ELSE Let(filtered_legs(st, id, portfolios, fungible_transfers, nfts_transfers),
             LAMBDA fl :
         IF fl.err # "Ok" THEN Err(fl.err, st)
         ELSE Let(WithdrawLoop(st, id, fl.legs, 1), LAMBDA w :
              IF w.err # "Ok" THEN w
              ELSE OkVal(WithdrawWrites(w.st, id, portfolios), fl.total))))

\* The receipts unclaimed, the locks released, the task cancelled, then pruned
RejectWrites(st, id, legs_v2) ==
    prune_instruction(
        cancel_named(unchecked_release_locks(unsafe_unclaim_receipts(st, id, legs_v2),
                                             id, legs_v2),
                     execution_name(id)).st,
        id, FALSE)

base_reject_instruction(st, did, id, portfolio, fungible_transfers, nfts_transfers) ==
    IF instruction_status(st, id) = Unknown THEN Err("UnknownInstruction", st)
    ELSE Let(get_instruction_legs(st, id), LAMBDA legs_v2 :
         IF ~\E i \in 1..Len(legs_v2) :
                 legs_v2[i][2].from = portfolio \/ legs_v2[i][2].to = portfolio
         THEN Err("CallerIsNotAParty", st)
         ELSE Let(get_transfer_data(legs_v2), LAMBDA transfer_data :
              IF transfer_data.err # "Ok" THEN Err(transfer_data.err, st)
              ELSE Let(ensure_valid_input_cost(transfer_data, fungible_transfers,
                                               nfts_transfers), LAMBDA cost :
                   IF cost # "Ok" THEN Err(cost, st)
                   ELSE Let(ensure_portfolio_custody_and_permission(portfolio, did),
                            LAMBDA custody :
                        IF custody # "Ok" THEN Err(custody, st)
                        ELSE Ok(RejectWrites(st, id, legs_v2))))))

\* Variant: a signer that is already authorised can be added again
UpdateSigners_add_unchecked(st, did, id, signers, add_signers) ==
    IF venue_for_management(st, id, did) # "Ok"
    THEN Err(venue_for_management(st, id, did), st)
    ELSE IF add_signers
    THEN Ok([st EXCEPT !.VenueSigners =
                @ \cup {<<id, signers[i]>> : i \in 1..Len(signers)}])
    ELSE IF \E i \in 1..Len(signers) : ~venue_signers(st, id, signers[i])
         THEN Err("SignerDoesNotExist", st)
         ELSE Ok([st EXCEPT !.VenueSigners =
                     @ \ {<<id, signers[i]>> : i \in 1..Len(signers)}])

base_update_venue_signers(st, did, id, signers, add_signers) ==
    IF venue_for_management(st, id, did) # "Ok"
    THEN Err(venue_for_management(st, id, did), st)
    ELSE IF add_signers
    THEN IF \E i \in 1..Len(signers) : venue_signers(st, id, signers[i])
         THEN Err("SignerAlreadyExists", st)
         ELSE Ok([st EXCEPT !.VenueSigners =
                     @ \cup {<<id, signers[i]>> : i \in 1..Len(signers)}])
    ELSE IF \E i \in 1..Len(signers) : ~venue_signers(st, id, signers[i])
         THEN Err("SignerDoesNotExist", st)
         ELSE Ok([st EXCEPT !.VenueSigners =
                     @ \ {<<id, signers[i]>> : i \in 1..Len(signers)}])

(***************************************************************************)
(* Inputs of the calls                                                     *)
(***************************************************************************)
SettlementTypes == {SettleOnAffirmation, SettleOnBlock(2), SettleManual(2)}

\* One fungible leg (given in the deprecated leg form)
OneLeg == <<Leg("pA", "pB", "T1", 2)>>
\* A fungible leg against a bundle of two NFTs
SwapLegs == <<LegV2("pA", "pB", Fungible("T1", 1)),
              LegV2("pB", "pA", NonFungible(NFTTicker, <<1, 2>>))>>
\* Two legs of one sender, to two receivers, that together exceed the sender's
\* balance
TwoLegs == <<LegV2("pA", "pB", Fungible("T1", 1)), LegV2("pA", "pC", Fungible("T1", 2))>>
\* An on-chain leg and a leg of an off-chain asset (to be settled by a receipt) of
\* one sender, against an NFT
OffChainLegs ==
    <<LegV2("pA", "pB", Fungible("T1", 1)), LegV2("pA", "pB", Fungible("OFF", 1)),
      LegV2("pB", "pA", NonFungible(NFTTicker, <<1>>))>>

AddArgs(who, venue_id, settlement_type, dates, legs, memo) ==
    [who |-> who, venue_id |-> venue_id, settlement_type |-> settlement_type,
     trade_date |-> dates[1], value_date |-> dates[2], legs |-> legs, memo |-> memo]

\* A leg between two portfolios of bob
NotPartyLegs == <<LegV2("pB", "pC", Fungible("T1", 1))>>

\* Two legs of one NFT each: storage returns leg 1 before leg 0
NftLegs ==
    <<LegV2("pB", "pA", NonFungible(NFTTicker, <<1>>)),
      LegV2("pB", "pA", NonFungible(NFTTicker, <<2>>))>>

\* add_instruction_with_memo: legs in the deprecated form, with a memo
AddWithMemoInputs == {AddArgs("alice", 1, SettleOnAffirmation, <<1, 2>>, OneLeg, TRUE)}

\* add_instruction: legs in the deprecated form
AddInputs ==
    {AddArgs("alice", 1, t, <<0, 0>>, OneLeg, FALSE) : t \in SettlementTypes}
    \cup {AddArgs("alice", 1, SettleOnBlock(1), <<0, 0>>, OneLeg, FALSE),
          AddArgs("alice", 1, SettleOnAffirmation, <<2, 1>>, OneLeg, FALSE),
          AddArgs("alice", MaxVenues + 1, SettleOnAffirmation, <<0, 0>>, OneLeg, FALSE),
          AddArgs("bob", 1, SettleOnAffirmation, <<0, 0>>, OneLeg, FALSE),
          AddArgs("alice", 1, SettleOnAffirmation, <<0, 0>>,
                  <<Leg("pA", "pA", "T1", 1)>>, FALSE),
          AddArgs("alice", 1, SettleOnAffirmation, <<0, 0>>,
                  <<Leg("pA", "pB", "T1", 0)>>, FALSE)}

\* add_instruction_with_memo_v2: legs in the unified form
AddV2Inputs ==
    {AddArgs("alice", 1, SettleOnAffirmation, <<0, 0>>, SwapLegs, FALSE),
     AddArgs("alice", 1, SettleManual(2), <<0, 0>>, SwapLegs, FALSE),
     AddArgs("alice", 1, SettleOnAffirmation, <<0, 0>>, OffChainLegs, FALSE),
     AddArgs("alice", 1, SettleOnBlock(2), <<0, 0>>, OffChainLegs, FALSE),
     AddArgs("alice", 1, SettleOnAffirmation, <<0, 0>>, TwoLegs, FALSE),
     AddArgs("alice", 1, SettleOnAffirmation, <<0, 0>>, NftLegs, FALSE),
          AddArgs("alice", 1, SettleOnAffirmation, <<0, 0>>,
                  TwoLegs \o <<LegV2("pB", "pA", Fungible("T1", 1))>>, FALSE),
          AddArgs("alice", 1, SettleOnAffirmation, <<0, 0>>,
                  <<LegV2("pB", "pA", NonFungible(NFTTicker, <<1, 1>>))>>, FALSE),
          AddArgs("alice", 1, SettleOnAffirmation, <<0, 0>>,
                  <<LegV2("pB", "pA", NonFungible(NFTTicker, <<1, 2, 2>>))>>, FALSE)}

\* add_and_affirm_instruction(_with_memo): the instruction and the portfolios
AddAndAffirmInputs ==
    {[who |-> "alice", venue_id |-> 1, settlement_type |-> SettleOnAffirmation,
      trade_date |-> 1, value_date |-> 2, legs |-> OneLeg, memo |-> TRUE,
      portfolios |-> ps] : ps \in {{"pA"}, {"pB"}}}

\* add_and_affirm_instruction_with_memo_v2
AddAndAffirmV2Inputs ==
    {[who |-> "alice", venue_id |-> 1, settlement_type |-> SettleOnAffirmation,
      trade_date |-> 0, value_date |-> 0, legs |-> l, memo |-> FALSE,
      portfolios |-> {"pA"}] : l \in {SwapLegs, TwoLegs, NotPartyLegs}}

AffirmArgs(who, portfolios, fungible_transfers, nfts_transfers) ==
    [who |-> who, portfolios |-> portfolios, fungible_transfers |-> fungible_transfers,
     nfts_transfers |-> nfts_transfers]

\* affirm, withdraw: caller, portfolios and the declared transfer counts
AffirmInputs ==
    {AffirmArgs("alice", {"pA"}, 2, 2), AffirmArgs("bob", {"pB"}, 2, 2),
     AffirmArgs("bob", {"pB", "pC"}, 2, 2), AffirmArgs("bob", {"pA"}, 2, 2),
     AffirmArgs("alice", {"pA"}, 0, 0), AffirmArgs("bob", {"pB"}, 2, 0),
     AffirmArgs("bob", {}, 0, 0)}

Signature(by, msg) == [by |-> by, msg |-> msg]

ReceiptDetails(uid, leg_id, signer, signature) ==
    [receipt_uid |-> uid, leg_id |-> leg_id, signer |-> signer, signature |-> signature]

\* The receipt of signer s1 for the off-chain leg (leg 1 of OffChainLegs)
GoodReceipt(uid) ==
    ReceiptDetails(uid, 1, "s1", Signature("s1", ReceiptMsg(uid, "pA", "pB", "OFF", 1)))

\* affirm_with_receipts: caller, portfolios, the declared count and the receipts.
\* alice presents receipts for her off-chain leg: one, the same one twice, two for
\* the one leg, one signed over another amount, one of a signer the venue does
\* not know, one for her on-chain leg, and none; bob presents the receipt for
\* the leg he sends
ReceiptInputs ==
    {[who |-> "alice", portfolios |-> {"pA"}, fungible_transfers |-> 2, receipts |-> r] :
        r \in {<<GoodReceipt(7)>>,
               <<GoodReceipt(7), GoodReceipt(7)>>,
               <<GoodReceipt(7), GoodReceipt(8)>>,
               <<ReceiptDetails(7, 1, "s1",
                    Signature("s1", ReceiptMsg(7, "pA", "pB", "OFF", 2)))>>,
               <<ReceiptDetails(7, 1, "s2",
                    Signature("s2", ReceiptMsg(7, "pA", "pB", "OFF", 1)))>>,
               <<ReceiptDetails(7, 0, "s1",
                    Signature("s1", ReceiptMsg(7, "pA", "pB", "T1", 1)))>>,
               <<>>}}
    \cup {[who |-> "bob", portfolios |-> {"pB"}, fungible_transfers |-> 2,
           receipts |-> <<ReceiptDetails(7, 2, "s1",
                             Signature("s1", ReceiptMsg(7, "pB", "pA", NFTTicker, 1)))>>],
          [who |-> "bob", portfolios |-> {"pB"}, fungible_transfers |-> 2,
           receipts |-> <<GoodReceipt(7)>>]}

\* affirm_and_execute_instruction, as the STO pallet calls it
AffirmAndExecuteInputs ==
    {[who |-> "bob", portfolios |-> {"pB"}, max_legs_count |-> 2, nfts_transferred |-> 2,
      receipt |-> <<>>],
     [who |-> "alice", portfolios |-> {"pA"}, max_legs_count |-> 2, nfts_transferred |-> 2,
      receipt |-> <<GoodReceipt(7)>>]}

\* execute_manual_instruction: caller, declared leg count, portfolio ("" for None)
ManualInputs ==
    {[who |-> "alice", legs_count |-> 2, portfolio |-> ""],
     [who |-> "alice", legs_count |-> 2, portfolio |-> "pA"],
     [who |-> "bob", legs_count |-> 2, portfolio |-> "pB"],
     [who |-> "bob", legs_count |-> 2, portfolio |-> ""],
     [who |-> "bob", legs_count |-> 2, portfolio |-> "pC"],
     [who |-> "alice", legs_count |-> 0, portfolio |-> ""]}

\* reject_instruction: caller, portfolio and the declared transfer counts
RejectInputs ==
    {[who |-> "bob", portfolio |-> "pB", fungible_transfers |-> 2, nfts_transfers |-> 2],
     [who |-> "bob", portfolio |-> "pC", fungible_transfers |-> 2, nfts_transfers |-> 2],
     [who |-> "bob", portfolio |-> "pA", fungible_transfers |-> 2, nfts_transfers |-> 2]}

\* Instruction ids a caller may name: those issued, and the next one
CallIds == 1..Min(InstructionCounter, MaxInstructions)

(***************************************************************************)
(* The record of the last call                                             *)
(***************************************************************************)
Call(op, id, res, leg, arg) ==
    [op |-> op, id |-> id, res |-> res, leg |-> leg, arg |-> arg]

\* The storage layer of a dispatchable call (decl_module): the writes of a call
\* that returns an error are discarded
with_storage_layer(before, r) == IF r.err = "Ok" THEN r.st ELSE before

EnvUnchanged == UNCHANGED <<Frozen, block_number>>

(***************************************************************************)
(* Remaining internal functions                                            *)
(***************************************************************************)
execute_settle_on_affirmation_instruction(st, id, affirms_pending, settlement_type) ==
    IF settlement_type = SettleOnAffirmation /\ affirms_pending = 0
    THEN Let(execute_instruction(st, id), LAMBDA r : IF r.err # "Ok" THEN r ELSE Ok(r.st))
    ELSE Ok(st)

\* What affirm_and_execute_instruction does after the affirmation
ThenExecute(a, id) ==
    IF a.err # "Ok" THEN a
    ELSE Let(execute_settle_on_affirmation_instruction(
                 a.st, id, instruction_affirms_pending(a.st, id),
                 instruction_details(a.st, id).settlement_type),
             LAMBDA e : IF e.err # "Ok" THEN e ELSE Ok(prune_instruction(e.st, id, TRUE)))

\* receipt is <<>> for None and <<receipt>> for Some(receipt)
affirm_and_execute_instruction(st, did, id, receipt, portfolios, max_legs_count, nfts_transferred) ==
    ThenExecute(
        IF receipt # <<>>
        THEN base_affirm_with_receipts(st, did, id, receipt, portfolios, max_legs_count)
        ELSE base_affirm_instruction(st, did, id, portfolios, max_legs_count,
                                     nfts_transferred),
        id)

\* get_transfer_by_asset: the fungible legs and the NFTs of a list of legs
get_transfer_by_asset(legs_v2) ==
    Let(get_transfer_data([i \in 1..Len(legs_v2) |-> <<i - 1, legs_v2[i]>>]),
        LAMBDA td : <<td.fungible, td.non_fungible>>)

\* Variant: the instruction is kept when its affirmation fails
AddAndAffirm_add_kept(st, did, a, portfolios, legs, memo, emit_deprecated_event, fungible_transfers, nfts_transfers) ==
    Let(base_add_instruction(st, did, a.venue_id, a.settlement_type, a.trade_date,
                             a.value_date, legs, memo, emit_deprecated_event),
        LAMBDA added :
          IF added.err # "Ok" THEN added
          ELSE Let(affirm_and_maybe_schedule_instruction(
                       added.st, did, added.val, portfolios, fungible_transfers,
                       nfts_transfers),
                   LAMBDA affirmed :
                     IF affirmed.err # "Ok" THEN added
                     ELSE [affirmed EXCEPT !.val = added.val]))

\* The body shared by the add_and_affirm calls, inside their with_transaction
AddAndAffirm(st, did, a, portfolios, legs, memo, emit_deprecated_event, fungible_transfers, nfts_transfers) ==
    with_transaction(st,
        Let(base_add_instruction(st, did, a.venue_id, a.settlement_type, a.trade_date,
                                 a.value_date, legs, memo, emit_deprecated_event),
            LAMBDA added :
              IF added.err # "Ok" THEN added
              ELSE Let(affirm_and_maybe_schedule_instruction(
                           added.st, did, added.val, portfolios, fungible_transfers,
                           nfts_transfers),
                       LAMBDA affirmed : [affirmed EXCEPT !.val = added.val])))

LegsIntoV2(legs) == [i \in 1..Len(legs) |-> LegIntoV2(legs[i])]

\* legs.iter().filter(|l| portfolios_set.contains(&l.from)).count()
LegsCount(legs, portfolios) ==
    Cardinality({i \in 1..Len(legs) : legs[i].from \in portfolios})

(***************************************************************************)
(* The dispatchable calls.  Each call runs in the storage layer of the     *)
(* dispatch, and `last` records the call and its result.                   *)
(***************************************************************************)
\* A refused call leaves the storage as it was, so the calls that can follow it
\* are those that could follow the state it was made in: a behaviour is followed
\* up to its first refused call
Ready == last.res = "Ok"

Dispatched(op, id, r, leg, arg) ==
    /\ Ready
    /\ Commit(with_storage_layer(Storage, r))
    /\ last' = Call(op, id, r.err, leg, arg)
    /\ EnvUnchanged

\* The instruction id counter is bounded: a call that would issue an id beyond
\* the bound is not taken, unless the counter is within the bound of its
\* maximum; a call that is refused is always possible
WithinBound(r) ==
    \/ r.err # "Ok"
    \/ InstructionCounter <= MaxInstructions
    \/ InstructionCounter >= U64Max - MaxInstructions

\* A call that adds an instruction: the id in `last` is the id it returned
DispatchedAdd(op, r, arg) ==
    /\ Ready
    /\ WithinBound(r)
    /\ Dispatched(op, r.val, r, -1, arg)

\* Variant: the venue is stored and the venue counter is left as it was
CreateVenue_counter_kept(st, did, signers) ==
    OkVal([st EXCEPT
             !.VenueInfo = Put(@, st.VenueCounter, [creator |-> did]),
             !.VenueSigners = @ \cup {<<st.VenueCounter, signers[i]>> :
                                         i \in 1..Len(signers)},
             !.UserVenues = Put(@, did, Append(Get(@, did, <<>>), st.VenueCounter))],
          st.VenueCounter)

\* The body of create_venue: val is the id of the venue
CreateVenue(st, did, signers) ==
    Let(try_next_post(st.VenueCounter), LAMBDA ctr :
        IF ctr.err # "Ok" THEN Err(ctr.err, st)
        ELSE OkVal([st EXCEPT
                      !.VenueCounter = ctr.next,
                      !.VenueInfo = Put(@, ctr.val, [creator |-> did]),
                      !.VenueSigners = @ \cup {<<ctr.val, signers[i]>> :
                                                  i \in 1..Len(signers)},
                      !.UserVenues = Put(@, did, Append(Get(@, did, <<>>), ctr.val))],
                   ctr.val))

\* The venue counter is bounded as the instruction counter is
create_venue ==
    \E signers \in {<<"s1">>} :
        /\ VenueCounter <= MaxVenues \/ VenueCounter >= U64Max - MaxVenues
        /\ Let(CreateVenue(Storage, "alice", signers), LAMBDA r :
               Dispatched("create_venue", r.val, r, -1, signers))

add_instruction ==
    \E a \in AddInputs :
        DispatchedAdd("add_instruction",
            base_add_instruction(Storage, a.who, a.venue_id, a.settlement_type,
                a.trade_date, a.value_date, LegsIntoV2(a.legs), FALSE, TRUE), a)

add_instruction_with_memo ==
    \E a \in AddWithMemoInputs :
        DispatchedAdd("add_instruction_with_memo",
            base_add_instruction(Storage, a.who, a.venue_id, a.settlement_type,
                a.trade_date, a.value_date, LegsIntoV2(a.legs), a.memo, TRUE), a)

add_instruction_with_memo_v2 ==
    \E a \in AddV2Inputs :
        DispatchedAdd("add_instruction_with_memo_v2",
            base_add_instruction(Storage, a.who, a.venue_id, a.settlement_type,
                a.trade_date, a.value_date, a.legs, a.memo, FALSE), a)

add_and_affirm_instruction ==
    \E a \in AddAndAffirmInputs :
        DispatchedAdd("add_and_affirm_instruction",
            AddAndAffirm(Storage, a.who, a, a.portfolios, LegsIntoV2(a.legs), FALSE, TRUE,
                         LegsCount(a.legs, a.portfolios), -1), a)

add_and_affirm_instruction_with_memo ==
    \E a \in AddAndAffirmInputs :
        DispatchedAdd("add_and_affirm_instruction_with_memo",
            AddAndAffirm(Storage, a.who, a, a.portfolios, LegsIntoV2(a.legs), a.memo, TRUE,
                         LegsCount(a.legs, a.portfolios), -1), a)

add_and_affirm_instruction_with_memo_v2 ==
    \E a \in AddAndAffirmV2Inputs :
        DispatchedAdd("add_and_affirm_instruction_with_memo_v2",
            AddAndAffirm(Storage, a.who, a, a.portfolios, a.legs, a.memo, FALSE,
                         get_transfer_by_asset(a.legs)[1],
                         get_transfer_by_asset(a.legs)[2]), a)

affirm_instruction ==
    \E id \in CallIds, a \in AffirmInputs :
        Dispatched("affirm_instruction", id,
            affirm_and_maybe_schedule_instruction(Storage, a.who, id, a.portfolios,
                                                  a.fungible_transfers, -1),
            -1, a)

affirm_instruction_v2 ==
    \E id \in CallIds, a \in AffirmInputs :
        Dispatched("affirm_instruction_v2", id,
            affirm_and_maybe_schedule_instruction(Storage, a.who, id, a.portfolios,
                                                  a.fungible_transfers, a.nfts_transfers),
            -1, a)

affirm_with_receipts ==
    \E id \in CallIds, a \in ReceiptInputs :
        Dispatched("affirm_with_receipts", id,
            affirm_with_receipts_and_maybe_schedule_instruction(
                Storage, a.who, id, a.receipts, a.portfolios, a.fungible_transfers),
            -1, a)

\* Variant: the scheduled execution is left in the agenda
Withdraw_uncancelled(st, did, id, portfolios, fungible_transfers, nfts_transfers) ==
    Let(ensure_instruction_validity(st, id, FALSE), LAMBDA v :
    IF v.err # "Ok" THEN Err(v.err, st)
    ELSE unsafe_withdraw_instruction_affirmation(st, did, id, portfolios,
                                                 fungible_transfers, nfts_transfers))

\* The body shared by withdraw_affirmation and withdraw_affirmation_v2
Withdraw(st, did, id, portfolios, fungible_transfers, nfts_transfers) ==
    Let(ensure_instruction_validity(st, id, FALSE), LAMBDA v :
    IF v.err # "Ok" THEN Err(v.err, st)
    ELSE Let(unsafe_withdraw_instruction_affirmation(st, did, id, portfolios,
                                                     fungible_transfers, nfts_transfers),
             LAMBDA w :
         IF w.err # "Ok" THEN w
         ELSE IF v.val.settlement_type = SettleOnAffirmation
         THEN Ok(cancel_named(w.st, execution_name(id)).st)
         ELSE Ok(w.st)))

withdraw_affirmation ==
    \E id \in CallIds, a \in AffirmInputs :
        Dispatched("withdraw_affirmation", id,
            Withdraw(Storage, a.who, id, a.portfolios, a.fungible_transfers, -1), -1, a)

withdraw_affirmation_v2 ==
    \E id \in CallIds, a \in AffirmInputs :
        Dispatched("withdraw_affirmation_v2", id,
            Withdraw(Storage, a.who, id, a.portfolios, a.fungible_transfers,
                     a.nfts_transfers), -1, a)

reject_instruction ==
    \E id \in CallIds, a \in RejectInputs :
        Dispatched("reject_instruction", id,
            base_reject_instruction(Storage, a.who, id, a.portfolio,
                                    a.fungible_transfers, -1), -1, a)

reject_instruction_v2 ==
    \E id \in CallIds, a \in RejectInputs :
        Dispatched("reject_instruction_v2", id,
            base_reject_instruction(Storage, a.who, id, a.portfolio,
                                    a.fungible_transfers, a.nfts_transfers), -1, a)

\* The caller is the agent of ticker T1.  In this and the next three calls a
\* call that writes what is already stored is not taken
set_venue_filtering ==
    \E enabled \in BOOLEAN \ {venue_filtering(Storage, "T1")} :
        Dispatched("set_venue_filtering", 0,
            Ok([Storage EXCEPT !.VenueFiltering =
                    IF enabled THEN @ \cup {"T1"} ELSE @ \ {"T1"}]),
            -1, enabled)

allow_venues ==
    \E venues \in {<<1>>} :
        /\ ~venue_allow_list(Storage, "T1", venues[1])
        /\ Dispatched("allow_venues", 0,
            Ok([Storage EXCEPT !.VenueAllowList =
                    @ \cup {<<"T1", venues[i]>> : i \in 1..Len(venues)}]),
            -1, venues)

disallow_venues ==
    \E venues \in {<<1>>} :
        /\ venue_allow_list(Storage, "T1", venues[1])
        /\ Dispatched("disallow_venues", 0,
            Ok([Storage EXCEPT !.VenueAllowList =
                    @ \ {<<"T1", venues[i]>> : i \in 1..Len(venues)}]),
            -1, venues)

\* The caller is the account s1
change_receipt_validity ==
    \E receipt_uid \in ReceiptUids, validity \in BOOLEAN :
        /\ validity = receipts_used(Storage, "s1", receipt_uid)
        /\ Dispatched("change_receipt_validity", 0,
            Ok([Storage EXCEPT !.ReceiptsUsed =
                    IF ~validity THEN @ \cup {<<"s1", receipt_uid>>}
                    ELSE @ \ {<<"s1", receipt_uid>>}]),
            -1, <<receipt_uid, validity>>)

\* The scheduler runs the task of an instruction, at its block or later.  The
\* call returns nothing: last.leg and last.arg hold the leg and the error of the
\* FailedToExecuteInstruction event ("Ok" when there is none)
ScheduledDispatched(id, st, r) ==
    /\ Ready
    /\ Commit(with_storage_layer(st, r))
    /\ last' = Call("execute_scheduled_instruction_v2", id, r.err, r.val.leg, r.val.err)
    /\ EnvUnchanged

\* The scheduler takes a task that is due out of the agenda and dispatches its call
execute_scheduled_instruction_v2 ==
    \E i \in 1..Len(Agenda) :
        /\ Agenda[i].at <= block_number
        /\ ScheduledDispatched(Agenda[i].id,
              [Storage EXCEPT !.Agenda = WithoutTask(@, i)],
              base_execute_scheduled_instruction(
                  [Storage EXCEPT !.Agenda = WithoutTask(@, i)], Agenda[i].id))

\* Variant: an instruction is rescheduled whatever its status is
Reschedule_any_status(st, id) ==
    Let([st EXCEPT !.InstructionStatuses = Put(@, id, Pending)], LAMBDA st1 :
        Ok(schedule_instruction(st1, id, block_number + 1)))

\* Variant: the execution is scheduled and the status is left Failed
Reschedule_still_failed(st, id) ==
    IF instruction_status(st, id) # Failed
    THEN Err("InstructionNotFailed", st)
    ELSE Ok(schedule_instruction(st, id, block_number + 1))

\* The status set back to Pending and the execution scheduled for the next block
Reschedule(st, id) ==
    IF instruction_status(st, id) # Failed
    THEN Err("InstructionNotFailed", st)
    ELSE Let([st EXCEPT !.InstructionStatuses = Put(@, id, Pending)], LAMBDA st1 :
         Let(get_transfer_data(get_instruction_legs(st1, id)), LAMBDA transfer_data :
             IF transfer_data.err # "Ok" THEN Err(transfer_data.err, st1)
             ELSE Ok(schedule_instruction(st1, id, block_number + 1))))

reschedule_instruction ==
    \E id \in CallIds, did \in {"bob"} :
        Dispatched("reschedule_instruction", id, Reschedule(Storage, id), -1, did)

\* update_venue_signers: the venue, the signers and whether they are added
VenueSignerInputs ==
    {[id |-> id, signers |-> signers, add_signers |-> add_signers] :
        id \in 1..(MaxVenues + 1),
        signers \in {<<"s1">>, <<"s2", "s1">>},
        add_signers \in BOOLEAN}

update_venue_signers ==
    \E did \in Identities, a \in VenueSignerInputs :
        Dispatched("update_venue_signers", a.id,
            base_update_venue_signers(Storage, did, a.id, a.signers, a.add_signers),
            -1, [who |-> did, signers |-> a.signers, add_signers |-> a.add_signers])

\* Variant: a portfolio in the caller's custody need not be on a leg
ManualChecks_any_portfolio(st, id, a) ==
    Let(ensure_instruction_validity(st, id, TRUE), LAMBDA v :
    IF v.err # "Ok" THEN v.err
    ELSE Let(get_instruction_legs(st, id), LAMBDA instruction_legs :
    Let(IF a.portfolio # ""
        THEN ensure_portfolio_custody_and_permission(a.portfolio, a.who)
        ELSE venue_for_management(st, v.val.venue_id, a.who),
        LAMBDA permitted :
    IF permitted # "Ok" THEN permitted
    ELSE IF ~(Len(instruction_legs) <= a.legs_count) THEN "LegCountTooSmall"
    ELSE "Ok")))

\* The checks of execute_manual_instruction, before the execution
ManualChecks(st, id, a) ==
    Let(ensure_instruction_validity(st, id, TRUE), LAMBDA v :
    IF v.err # "Ok" THEN v.err
    ELSE Let(get_instruction_legs(st, id), LAMBDA instruction_legs :
    Let(IF a.portfolio # ""
        THEN Let(ensure_portfolio_custody_and_permission(a.portfolio, a.who),
                 LAMBDA custody :
                   IF custody # "Ok" THEN custody
                   ELSE IF ~\E i \in 1..Len(instruction_legs) :
                               \/ instruction_legs[i][2].from = a.portfolio
                               \/ instruction_legs[i][2].to = a.portfolio
                   THEN "CallerIsNotAParty"
                   ELSE "Ok")
        ELSE venue_for_management(st, v.val.venue_id, a.who),
        LAMBDA permitted :
    IF permitted # "Ok" THEN permitted
    ELSE IF ~(Len(instruction_legs) <= a.legs_count) THEN "LegCountTooSmall"
    ELSE "Ok")))

ExecuteManual(st, id, a) ==
    Let(ManualChecks(st, id, a), LAMBDA checks :
        IF checks # "Ok" THEN Err(checks, st)
        ELSE execute_instruction_retryable(st, id))

\* last.leg is the leg that the InstructionFailed error names
ManualDispatched(id, r, a) ==
    Dispatched("execute_manual_instruction", id, r,
               IF r.err = "InstructionFailed" THEN r.val ELSE -1, a)

execute_manual_instruction ==
    \E id \in CallIds, a \in ManualInputs :
        ManualDispatched(id, ExecuteManual(Storage, id, a), a)

\* The STO pallet's use of affirm_and_execute_instruction, inside its own call
affirm_and_execute ==
    \E id \in CallIds, a \in AffirmAndExecuteInputs :
        Dispatched("affirm_and_execute_instruction", id,
            affirm_and_execute_instruction(Storage, a.who, id, a.receipt, a.portfolios,
                                           a.max_legs_count, a.nfts_transferred),
            -1, a)

(***************************************************************************)
(* The environment: blocks pass, an asset is frozen or unfrozen.  These are *)
(* not calls of the pallet: `last` stays the last call.                    *)
(***************************************************************************)
NextBlock ==
    /\ Ready
    /\ block_number < MaxBlock
    /\ block_number' = block_number + 1
    /\ UNCHANGED <<storageVars, Frozen, last>>

SetFrozen ==
    \E ticker \in {NFTTicker} :
        /\ Ready
        /\ Frozen' = IF ticker \in Frozen THEN Frozen \ {ticker} ELSE Frozen \cup {ticker}
        /\ UNCHANGED <<storageVars, block_number, last>>

(***************************************************************************)
(* The specification                                                       *)
(***************************************************************************)
Init ==
    /\ VenueInfo = EmptyMap
    /\ VenueSigners = {}
    /\ UserVenues = EmptyMap
    /\ VenueCounter = 1
    /\ InstructionCounter = 1
    /\ InstructionDetails = EmptyMap
    /\ InstructionStatuses = EmptyMap
    /\ InstructionLegs = EmptyMap
    /\ InstructionLegsV2 = EmptyMap
    /\ InstructionLegStatus = EmptyMap
    /\ InstructionAffirmsPending = EmptyMap
    /\ AffirmsReceived = EmptyMap
    /\ UserAffirmations = EmptyMap
    /\ ReceiptsUsed = {}
    /\ VenueFiltering = {}
    /\ VenueAllowList = {}
    /\ VenueInstructions = {}
    /\ InstructionMemos = {}
    /\ Agenda = <<>>
    /\ PortfolioAssetBalances =
          [p \in Portfolios |-> [t \in FungibleTickers |->
              IF p = "pA" /\ t = "T1" THEN 2 ELSE 0]]
    /\ PortfolioLockedAssets = [p \in Portfolios |-> [t \in FungibleTickers |-> 0]]
    /\ PortfolioNFT = [n \in NFTIds |-> "pB"]
    /\ PortfolioLockedNFT = {}
    /\ Frozen = {}
    /\ block_number = 1
    /\ last = Call("genesis", 0, "Ok", -1, <<>>)

Next ==
    \/ create_venue
    \/ add_instruction
    \/ add_instruction_with_memo
    \/ add_instruction_with_memo_v2
    \/ add_and_affirm_instruction
    \/ add_and_affirm_instruction_with_memo
    \/ add_and_affirm_instruction_with_memo_v2
    \/ affirm_instruction
    \/ affirm_instruction_v2
    \/ affirm_with_receipts
    \/ withdraw_affirmation
    \/ withdraw_affirmation_v2
    \/ reject_instruction
    \/ reject_instruction_v2
    \/ set_venue_filtering
    \/ execute_scheduled_instruction_v2
    \/ reschedule_instruction
    \/ execute_manual_instruction
    \/ affirm_and_execute
    \/ NextBlock
    \/ SetFrozen

Spec == Init /\ [][Next]_vars

\* A chain on which all but the last one or two ids of both counters have been
\* issued.  Of the venues and instructions of its past the state holds those
\* that the calls name: venue 1, and instruction 1, which was rejected and pruned
NearOverflowInit ==
    /\ VenueInfo = Put(EmptyMap, 1, [creator |-> "alice"])
    /\ VenueSigners = {<<1, "s1">>}
    /\ UserVenues = Put(EmptyMap, "alice", <<1>>)
    /\ VenueCounter \in {U64Max - 1, U64Max}
    /\ InstructionCounter \in {U64Max - 1, U64Max}
    /\ InstructionDetails = EmptyMap
    /\ InstructionStatuses = Put(EmptyMap, 1, Rejected(1))
    /\ InstructionLegs = EmptyMap
    /\ InstructionLegsV2 = EmptyMap
    /\ InstructionLegStatus = EmptyMap
    /\ InstructionAffirmsPending = EmptyMap
    /\ AffirmsReceived = EmptyMap
    /\ UserAffirmations = EmptyMap
    /\ ReceiptsUsed = {}
    /\ VenueFiltering = {}
    /\ VenueAllowList = {}
    /\ VenueInstructions = {}
    /\ InstructionMemos = {}
    /\ Agenda = <<>>
    /\ PortfolioAssetBalances =
          [p \in Portfolios |-> [t \in FungibleTickers |->
              IF p = "pA" /\ t = "T1" THEN 2 ELSE 0]]
    /\ PortfolioLockedAssets = [p \in Portfolios |-> [t \in FungibleTickers |-> 0]]
    /\ PortfolioNFT = [n \in NFTIds |-> "pB"]
    /\ PortfolioLockedNFT = {}
    /\ Frozen = {}
    /\ block_number = 1
    /\ last = Call("genesis", 0, "Ok", -1, <<>>)

\* The chain from its genesis, or the chain near the end of its counters
InitCounters == Init \/ NearOverflowInit

SpecCounters == InitCounters /\ [][Next]_vars

\* The scheduler can take a step: a task of the agenda is due
TaskDue == Ready /\ \E i \in 1..Len(Agenda) : Agenda[i].at <= block_number

\* Blocks keep passing, and the scheduler dispatches a task that stays due
\* (weak fairness of execute_scheduled_instruction_v2, which is enabled exactly
\* when a task is due)
Fairness ==
    /\ WF_vars(NextBlock)
    /\ \/ []<>~TaskDue
       \/ []<><<execute_scheduled_instruction_v2>>_vars

SpecLive == Init /\ [][Next]_vars /\ Fairness

\* The management of the signers of a venue, and the calls that create venues
\* and that present and unclaim the receipts of their signers
NextVenues ==
    \/ create_venue
    \/ update_venue_signers
    \/ add_instruction_with_memo_v2
    \/ affirm_with_receipts
    \/ withdraw_affirmation
    \/ reject_instruction
    \/ NextBlock

SpecVenues == Init /\ [][NextVenues]_vars

(***************************************************************************)
(* Properties.  A step of a call leaves Frozen and block_number as they    *)
(* were and records the call in last'; the unprimed variables are the      *)
(* storage the call started from.                                          *)
(***************************************************************************)
IsCall == UNCHANGED <<Frozen, block_number>>

ExecutionOps == {"execute_scheduled_instruction_v2", "execute_manual_instruction"}

\* The blocks of the tasks that an agenda holds for an instruction
ScheduledAt(agenda, id) == {agenda[i].at : i \in Named(agenda, execution_name(id))}

\* The agenda with a task for the instruction at the end
WithTask(agenda, id, at) == Append(agenda, Task(execution_name(id), at, id))

\* The error of an execution attempt ("Ok" if none): for the scheduler the error
\* of the FailedToExecuteInstruction event, for a manual execution the result
ExecError(c) ==
    IF c.op = "execute_scheduled_instruction_v2" THEN c.arg ELSE c.res

\* The attempt failed on the transfer of a leg (the leg of LegFailedExecution)
LegTransferFailed(c) ==
    c.op \in ExecutionOps /\ ExecError(c) = "InstructionFailed" /\ c.leg >= 0

ExecutionSucceeded(c) == c.op \in ExecutionOps /\ ExecError(c) = "Ok"

\* The instruction has no entry left in the instruction tables
Pruned(st, id) ==
    /\ id \notin DOMAIN st.InstructionDetails
    /\ id \notin DOMAIN st.InstructionAffirmsPending
    /\ \A k \in DOMAIN st.InstructionLegs : k[1] # id
    /\ \A k \in DOMAIN st.InstructionLegsV2 : k[1] # id
    /\ \A k \in DOMAIN st.InstructionLegStatus : k[1] # id
    /\ \A k \in DOMAIN st.AffirmsReceived : k[1] # id
    /\ \A k \in DOMAIN st.UserAffirmations : k[2] # id

\* What the legs that are ExecutionPending bring to (+) and take from (-) the
\* balance of ticker t in portfolio p
RECURSIVE NetFlow(_, _, _, _)
NetFlow(legs, id, p, t) ==
    IF legs = <<>> THEN 0
    ELSE LET leg == Head(legs)[2]
             moved == /\ instruction_leg_status(Storage, id, Head(legs)[1]) = ExecutionPending
                      /\ leg.asset.kind = "Fungible"
                      /\ leg.asset.ticker = t
         IN  (IF moved /\ leg.to = p THEN leg.asset.amount ELSE 0)
             - (IF moved /\ leg.from = p THEN leg.asset.amount ELSE 0)
             + NetFlow(Tail(legs), id, p, t)

\* C1: execution is all or nothing.  When an execution attempt (by the scheduler
\* or by execute_manual_instruction) fails on the transfer of a leg, every
\* portfolio balance, every NFT holding and every token and NFT lock is after the
\* attempt exactly what it was before it.
C1_ExecutionAllOrNothing ==
    [][IsCall /\ LegTransferFailed(last')
         => UNCHANGED <<PortfolioAssetBalances, PortfolioLockedAssets,
                        PortfolioNFT, PortfolioLockedNFT>>]_vars

\* The scheduler ran a swap whose second leg (the NFTs) failed after the first
\* leg had been transferred inside the transaction: balances and locks are those
\* of before the attempt
C1_Witness ==
    /\ last.op = "execute_scheduled_instruction_v2"
    /\ last.arg = "InstructionFailed"
    /\ last.leg = 1
    /\ PortfolioLockedAssets["pA"]["T1"] = 1
    /\ PortfolioAssetBalances["pA"]["T1"] = 2
    /\ PortfolioLockedNFT = NFTIds

\* C2: execution is gated on the pending counter.  An execution invoked (by the
\* scheduler, or by execute_manual_instruction once its own checks have passed)
\* while the pending counter of the instruction is not zero fails with
\* InstructionFailed, attempts no leg and moves no asset, whatever the settlement
\* type, the age of the instruction and the block.
C2_ExecutionGated ==
    [][/\ IsCall
       /\ last'.op \in ExecutionOps
       /\ last'.op = "execute_manual_instruction"
            => ManualChecks(Storage, last'.id, last'.arg) = "Ok"
       /\ instruction_affirms_pending(Storage, last'.id) # 0
       => /\ ExecError(last') = "InstructionFailed"
          /\ last'.leg = -1
          /\ UNCHANGED <<PortfolioAssetBalances, PortfolioNFT>>]_vars

\* A manual execution, permitted to its caller, of an instruction that still
\* waits for affirmations
C2_Witness ==
    /\ last.op = "execute_manual_instruction"
    /\ last.res = "InstructionFailed"
    /\ last.leg = -1
    /\ instruction_affirms_pending(Storage, last.id) > 0

\* C3: when an execution attempt succeeds, every fungible leg that was
\* ExecutionPending has moved exactly its amount from its sender to its receiver
\* and every NFT leg that was ExecutionPending its NFTs, the other legs
\* (ExecutionToBeSkipped) have changed no balance, the status is Success at the
\* current block, and the instruction is pruned.
C3_SuccessfulExecution ==
    [][IsCall /\ ExecutionSucceeded(last')
         => LET id == last'.id
                legs == get_instruction_legs(Storage, id)
                nft_legs == {i \in 1..Len(legs) :
                               /\ legs[i][2].asset.kind = "NonFungible"
                               /\ instruction_leg_status(Storage, id, legs[i][1])
                                     = ExecutionPending}
                to_of(n) == {legs[i][2].to : i \in {j \in nft_legs :
                               \E k \in 1..Len(legs[j][2].asset.ids) :
                                   legs[j][2].asset.ids[k] = n}}
            IN  /\ \A p \in Portfolios, t \in FungibleTickers :
                      PortfolioAssetBalances'[p][t]
                          = PortfolioAssetBalances[p][t] + NetFlow(legs, id, p, t)
                /\ \A n \in NFTIds :
                      IF to_of(n) = {} THEN PortfolioNFT'[n] = PortfolioNFT[n]
                      ELSE to_of(n) = {PortfolioNFT'[n]}
                /\ InstructionStatuses'[id] = Success(block_number)
                /\ Pruned(Storage', id)]_vars

\* An instruction with a leg settled off chain was executed: the fungible leg
\* reached its receiver and the instruction is gone
C3_Witness ==
    /\ ExecutionSucceeded(last)
    /\ instruction_status(Storage, last.id) = Success(block_number)
    /\ Pruned(Storage, last.id)
    /\ PortfolioAssetBalances["pB"]["T1"] = 1
    /\ PortfolioAssetBalances["pB"]["OFF"] = 0
    /\ ReceiptsUsed # {}

\* C4: when a scheduled execution of an instruction that is still stored fails,
\* the status becomes Failed and the instruction is not pruned: its details,
\* legs, leg statuses, affirmation statuses and pending counter are what they
\* were before the attempt, and the locks of the affirmations are still held.
C4_FailedScheduledExecution ==
    [][/\ IsCall
       /\ last'.op = "execute_scheduled_instruction_v2"
       /\ last'.arg # "Ok"
       /\ last'.id \in DOMAIN InstructionDetails
       => /\ InstructionStatuses'[last'.id] = Failed
          /\ UNCHANGED <<InstructionDetails, InstructionLegs, InstructionLegsV2,
                         InstructionLegStatus, UserAffirmations, AffirmsReceived,
                         InstructionAffirmsPending, PortfolioLockedAssets,
                         PortfolioLockedNFT>>]_vars

\* The scheduler failed to execute an instruction, at its block, that one party
\* had affirmed: the instruction is Failed and the lock of that party is held
C4_Witness ==
    /\ last.op = "execute_scheduled_instruction_v2"
    /\ last.arg # "Ok"
    /\ instruction_status(Storage, last.id) = Failed
    /\ instruction_details(Storage, last.id).settlement_type.t = "SettleOnBlock"
    /\ affirms_received(Storage, last.id, "pA") = "Affirmed"
    /\ instruction_leg_status(Storage, last.id, 0) = ExecutionPending
    /\ PortfolioLockedAssets["pA"]["T1"] > 0

\* C5: a manual execution that fails in the execution itself (a leg transfer
\* fails, the pending counter is not zero, or the venue is no longer allowed for
\* a filtered asset) leaves the instruction stored with status Failed, as a
\* failed scheduled execution does.
C5_FailedManualExecutionMarksFailed ==
    [][/\ IsCall
       /\ last'.op = "execute_manual_instruction"
       /\ ManualChecks(Storage, last'.id, last'.arg) = "Ok"
       /\ last'.res \in {"InstructionFailed", "UnauthorizedVenue"}
       => instruction_status(Storage', last'.id) = Failed]_vars

AddOps ==
    {"add_instruction", "add_instruction_with_memo", "add_instruction_with_memo_v2",
     "add_and_affirm_instruction", "add_and_affirm_instruction_with_memo",
     "add_and_affirm_instruction_with_memo_v2"}

\* The legs given to an add call, in the unified form
GivenLegs(c) ==
    IF c.op \in {"add_instruction_with_memo_v2", "add_and_affirm_instruction_with_memo_v2"}
    THEN c.arg.legs
    ELSE LegsIntoV2(c.arg.legs)

\* The number of NFTs in a list of legs
RECURSIVE NftCount(_)
NftCount(legs) ==
    IF legs = <<>> THEN 0 ELSE Len(Head(legs).asset.ids) + NftCount(Tail(legs))

\* One of the preconditions of adding an instruction does not hold, in the
\* storage and at the block of the call
AddPreconditionViolated(a, legs) ==
    \/ a.settlement_type.t = "SettleOnBlock" /\ a.settlement_type.b <= block_number
    \/ a.trade_date # 0 /\ a.value_date # 0 /\ a.value_date < a.trade_date
    \/ a.venue_id \notin DOMAIN VenueInfo
    \/ a.venue_id \in DOMAIN VenueInfo /\ VenueInfo[a.venue_id].creator # a.who
    \/ \E i \in 1..Len(legs) : legs[i].from = legs[i].to
    \/ \E i \in 1..Len(legs) : legs[i].asset.kind = "Fungible" /\ legs[i].asset.amount = 0
    \/ Cardinality({i \in 1..Len(legs) : legs[i].asset.kind = "Fungible"})
          > MaxNumberOfFungibleAssets
    \/ \E i \in 1..Len(legs) : Len(legs[i].asset.ids) > MaxNumberOfNFTsPerLeg
    \/ NftCount(legs) > MaxNumberOfNFTs
    \/ \E i \in 1..Len(legs) :
          /\ legs[i].asset.ticker \in VenueFiltering
          /\ <<legs[i].asset.ticker, a.venue_id>> \notin VenueAllowList

\* C6: adding an instruction leaves no partial state.  When a precondition is
\* violated (a SettleOnBlock target that is not in the future, a value date before
\* the trade date, a venue that is missing or not the caller's, a leg from a
\* portfolio to itself, a zero amount, the leg or NFT limits exceeded, a filtered
\* asset whose allow list lacks the venue) the call fails and the whole storage
\* of the pallet (the counter, the instruction tables, the affirmation entries,
\* the scheduler) is what it was before the call.
C6_AddInstructionAtomic ==
    [][/\ IsCall
       /\ last'.op \in AddOps
       /\ AddPreconditionViolated(last'.arg, GivenLegs(last'))
       => last'.res # "Ok" /\ UNCHANGED storageVars]_vars

\* An add call was refused for its venue while an earlier instruction is stored
C6_Witness ==
    /\ last.op \in AddOps
    /\ last.res \in {"InvalidVenue", "Unauthorized"}
    /\ InstructionCounter = 2
    /\ instruction_status(Storage, 1) = Pending

PartiesOf(legs) ==
    {legs[i].from : i \in 1..Len(legs)} \cup {legs[i].to : i \in 1..Len(legs)}

\* C7: after an instruction with n legs has been added, its status is Pending,
\* the affirmation status of each distinct party portfolio is Pending, the
\* pending counter is the number of distinct party portfolios, the legs are
\* stored under the ids 0..n-1 in the order given, and the status of every leg
\* is PendingTokenLock.
C7_AddInstructionPostcondition ==
    /\ last.op \in {"add_instruction", "add_instruction_with_memo",
                    "add_instruction_with_memo_v2"}
    /\ last.res = "Ok"
    => LET id == last.id
           legs == GivenLegs(last)
       IN  /\ instruction_status(Storage, id) = Pending
           /\ \A p \in PartiesOf(legs) : user_affirmations(Storage, p, id) = "Pending"
           /\ instruction_affirms_pending(Storage, id) = Cardinality(PartiesOf(legs))
           /\ Len(get_instruction_legs(Storage, id)) = Len(legs)
           /\ \A i \in 1..Len(legs) :
                 /\ get_instruction_leg(Storage, id, i - 1) = legs[i]
                 /\ instruction_leg_status(Storage, id, i - 1) = PendingTokenLock

\* An instruction of two legs between three portfolios was added
C7_Witness ==
    /\ last.op = "add_instruction_with_memo_v2"
    /\ last.res = "Ok"
    /\ GivenLegs(last) = TwoLegs
    /\ instruction_affirms_pending(Storage, last.id) = 3

AffirmOps == {"affirm_instruction", "affirm_instruction_v2", "affirm_with_receipts"}

\* The checks an affirmation makes before it looks at the affirmation statuses
\* all pass: the instruction can be affirmed, the receipts are distinct, and the
\* caller has custody of the portfolios
ReachesStatusCheck(c) ==
    /\ ensure_instruction_validity(Storage, c.id, FALSE).err = "Ok"
    /\ c.op = "affirm_with_receipts"
          => Cardinality(ReceiptIds(c.arg.receipts)) = Len(c.arg.receipts)
    /\ \A p \in c.arg.portfolios :
          ensure_portfolio_custody_and_permission(p, c.arg.who) = "Ok"

\* C8: an affirmation, with or without receipts, of a set of portfolios one of
\* which is not Pending for the instruction (already affirmed, or not a party)
\* fails and changes nothing; the error is UnexpectedAffirmationStatus when the
\* call gets as far as the statuses.
C8_AffirmRequiresPending ==
    [][/\ IsCall
       /\ last'.op \in AffirmOps
       /\ \E p \in last'.arg.portfolios :
             user_affirmations(Storage, p, last'.id) # "Pending"
       => /\ last'.res # "Ok"
          /\ UNCHANGED storageVars
          /\ ReachesStatusCheck(last')
                => last'.res = "UnexpectedAffirmationStatus"]_vars

\* A portfolio that had affirmed was affirmed again, with a receipt
C8_Witness ==
    /\ last.op = "affirm_with_receipts"
    /\ last.res = "UnexpectedAffirmationStatus"
    /\ user_affirmations(Storage, "pB", last.id) = "Affirmed"
    /\ "pB" \in last.arg.portfolios

OnChainAffirmOps == {"affirm_instruction", "affirm_instruction_v2"}

\* The nfts_transfers argument of an on-chain affirmation (-1 for None)
NftsArg(c) == IF c.op = "affirm_instruction" THEN -1 ELSE c.arg.nfts_transfers

\* The legs an affirmation of the portfolios P has to lock
LegsToLock(id, P) ==
    SelectSeq(get_instruction_legs(Storage, id), LAMBDA l : l[2].from \in P)

\* An on-chain affirmation passes every check and then fails to lock a leg
LockFails(c) ==
    /\ ensure_instruction_validity(Storage, c.id, FALSE).err = "Ok"
    /\ ensure_portfolios_and_affirmation_status(
           Storage, c.id, c.arg.portfolios, c.arg.who, {"Pending"}) = "Ok"
    /\ filtered_legs(Storage, c.id, c.arg.portfolios, c.arg.fungible_transfers,
                     NftsArg(c)).err = "Ok"
    /\ AffirmLockLoop(Storage, c.id, LegsToLock(c.id, c.arg.portfolios), 1).err # "Ok"

\* C9: when a lock fails during an affirmation, the affirmation returns
\* FailedToLockTokens and no lock, leg status, affirmation status or pending
\* counter has changed.
C9_LockFailureReported ==
    [][/\ IsCall
       /\ last'.op \in OnChainAffirmOps
       /\ LockFails(last')
       => /\ last'.res = "FailedToLockTokens"
          /\ UNCHANGED <<PortfolioLockedAssets, PortfolioLockedNFT, InstructionLegStatus,
                         UserAffirmations, AffirmsReceived,
                         InstructionAffirmsPending>>]_vars

\* What the legs of the portfolios P lock of ticker t in portfolio p
RECURSIVE LockedBy(_, _, _, _)
LockedBy(legs, P, p, t) ==
    IF legs = <<>> THEN 0
    ELSE LET leg == Head(legs)[2]
         IN  (IF leg.from = p /\ p \in P /\ leg.asset.kind = "Fungible"
                    /\ leg.asset.ticker = t
              THEN leg.asset.amount ELSE 0)
             + LockedBy(Tail(legs), P, p, t)

\* The NFTs of the legs whose sender is in P
NftsOf(legs, P) ==
    {n \in NFTIds : \E i \in 1..Len(legs) :
        /\ legs[i][2].from \in P
        /\ \E k \in 1..Len(legs[i][2].asset.ids) : legs[i][2].asset.ids[k] = n}

\* C10: after an on-chain affirmation by the portfolios P has succeeded, every
\* leg whose sender is in P is ExecutionPending and its asset is locked, every
\* portfolio of P is Affirmed, the pending counter has gone down by exactly the
\* size of P, and the legs whose sender is not in P are as they were.
C10_AffirmationPostcondition ==
    [][IsCall /\ last'.op \in OnChainAffirmOps /\ last'.res = "Ok"
         => LET id == last'.id
                P == last'.arg.portfolios
                legs == get_instruction_legs(Storage, id)
            IN  /\ get_instruction_legs(Storage', id) = legs
                /\ \A i \in 1..Len(legs) :
                      instruction_leg_status(Storage', id, legs[i][1])
                          = IF legs[i][2].from \in P THEN ExecutionPending
                            ELSE instruction_leg_status(Storage, id, legs[i][1])
                /\ \A p \in Portfolios, t \in FungibleTickers :
                      PortfolioLockedAssets'[p][t]
                          = PortfolioLockedAssets[p][t] + LockedBy(legs, P, p, t)
                /\ NftsOf(legs, P) \cap PortfolioLockedNFT = {}
                /\ PortfolioLockedNFT' = PortfolioLockedNFT \cup NftsOf(legs, P)
                /\ \A p \in P :
                      /\ user_affirmations(Storage', p, id) = "Affirmed"
                      /\ affirms_received(Storage', id, p) = "Affirmed"
                /\ instruction_affirms_pending(Storage', id)
                      = instruction_affirms_pending(Storage, id) - Cardinality(P)]_vars

\* The sender of the swap's fungible leg affirmed after the sender of its NFTs:
\* both legs are locked and nothing is pending
C10_Witness ==
    /\ last.op \in OnChainAffirmOps
    /\ last.res = "Ok"
    /\ last.arg.portfolios = {"pA"}
    /\ instruction_leg_status(Storage, last.id, 0) = ExecutionPending
    /\ PortfolioLockedAssets["pA"]["T1"] = 1
    /\ PortfolioLockedNFT = NFTIds
    /\ instruction_affirms_pending(Storage, last.id) = 0

\* The (signer, uid) pairs a call of affirm_with_receipts presents
Presented(c) ==
    {<<c.arg.receipts[i].signer, c.arg.receipts[i].receipt_uid>> :
        i \in 1..Len(c.arg.receipts)}

\* C11: an affirmation, with or without receipts, after which the pending
\* counter of a SettleOnAffirmation instruction is zero asks the scheduler to
\* execute the instruction at the next block: the task of the instruction is then
\* in the agenda, at block + 1 unless the scheduler refused the request because a
\* task of that name was already there.  An affirmation that leaves the counter
\* above zero, or one of a SettleOnBlock or SettleManual instruction, leaves the
\* agenda as it was.
C11_AffirmationSchedules ==
    [][IsCall /\ last'.op \in AffirmOps /\ last'.res = "Ok"
         => LET id == last'.id
            IN  IF /\ instruction_affirms_pending(Storage', id) = 0
                   /\ instruction_details(Storage, id).settlement_type = SettleOnAffirmation
                THEN IF ScheduledAt(Agenda, id) # {} THEN Agenda' = Agenda
                     ELSE Agenda' = WithTask(Agenda, id, block_number + 1)
                ELSE Agenda' = Agenda]_vars

\* The last party of a SettleOnAffirmation instruction affirmed, with a receipt:
\* the execution is in the agenda for the next block
C11_Witness ==
    /\ last.op = "affirm_with_receipts"
    /\ last.res = "Ok"
    /\ last.arg.receipts # <<>>
    /\ instruction_details(Storage, last.id).settlement_type = SettleOnAffirmation
    /\ instruction_affirms_pending(Storage, last.id) = 0
    /\ ScheduledAt(Agenda, last.id) = {block_number + 1}

\* The receipts of a call reach the check of the used flag: the instruction can
\* be affirmed, the receipts are distinct, the caller's portfolios are Pending,
\* and the first receipt that is used follows only receipts that are valid and
\* has a signer of the venue
ReachesUsedCheck(c) ==
    LET r == c.arg.receipts
        venue_id == instruction_details(Storage, c.id).venue_id
        used == {i \in 1..Len(r) : <<r[i].signer, r[i].receipt_uid>> \in ReceiptsUsed}
        k == CHOOSE i \in used : \A j \in used : i <= j
    IN  /\ used # {}
        /\ ensure_instruction_validity(Storage, c.id, FALSE).err = "Ok"
        /\ Cardinality(Presented(c)) = Len(r)
        /\ ensure_portfolios_and_affirmation_status(
               Storage, c.id, c.arg.portfolios, c.arg.who, {"Pending"}) = "Ok"
        /\ ValidateReceipts(Storage, c.id, venue_id, SubSeq(r, 1, k - 1),
                            c.arg.portfolios, 1) = "Ok"
        /\ <<venue_id, r[k].signer>> \in VenueSigners

\* The receipts that the leg statuses of the given legs hold as claimed
ClaimedBy(id, legs) ==
    {<<instruction_leg_status(Storage, id, legs[i][1]).signer,
       instruction_leg_status(Storage, id, legs[i][1]).uid>> :
        i \in {j \in 1..Len(legs) :
                 instruction_leg_status(Storage, id, legs[j][1]).s = "ExecutionToBeSkipped"}}

WithdrawOps == {"withdraw_affirmation", "withdraw_affirmation_v2"}

RECURSIVE LockedByExcept(_, _, _, _, _)
LockedByExcept(legs, P, skip, p, t) ==
    IF legs = <<>> THEN 0
    ELSE LET leg == Head(legs)[2]
         IN  (IF leg.from = p /\ p \in P /\ leg.asset.kind = "Fungible"
                    /\ leg.asset.ticker = t /\ Head(legs)[1] \notin skip
              THEN leg.asset.amount ELSE 0)
             + LockedByExcept(Tail(legs), P, skip, p, t)

\* The ids of the legs that the receipts of a call name
CoveredLegs(c) == {c.arg.receipts[i].leg_id : i \in 1..Len(c.arg.receipts)}

\* One of the receipts of a call is not valid for the instruction
ReceiptInvalid(c) ==
    LET r == c.arg.receipts
        venue_id == instruction_details(Storage, c.id).venue_id
        leg(i) == get_instruction_leg(Storage, c.id, r[i].leg_id)
    IN  \/ \E i, j \in 1..Len(r) :
              i # j /\ r[i].signer = r[j].signer /\ r[i].receipt_uid = r[j].receipt_uid
        \/ \E i \in 1..Len(r) : <<venue_id, r[i].signer>> \notin VenueSigners
        \/ \E i \in 1..Len(r) : <<r[i].signer, r[i].receipt_uid>> \in ReceiptsUsed
        \/ \E i \in 1..Len(r) : leg(i).asset.kind = "NonFungible"
        \/ \E i \in 1..Len(r) : leg(i).from \notin c.arg.portfolios
        \/ \E i \in 1..Len(r) :
              \/ r[i].signature.by # r[i].signer
              \/ r[i].signature.msg
                    # [receipt_uid |-> r[i].receipt_uid, from |-> leg(i).from,
                       to |-> leg(i).to, asset |-> leg(i).asset.ticker,
                       amount |-> leg(i).asset.amount]

\* The free balance of a portfolio does not cover the legs it has to lock (the
\* legs of the portfolios of the call that no receipt names)
ReceiptLockFails(c) ==
    \E p \in c.arg.portfolios, t \in FungibleTickers :
        PortfolioAssetBalances[p][t] - PortfolioLockedAssets[p][t]
            < LockedByExcept(get_instruction_legs(Storage, c.id), c.arg.portfolios,
                             CoveredLegs(c), p, t)

\* C13: affirm_with_receipts is all or nothing.  When a receipt of the call is
\* not valid (the same (signer, uid) twice in the call, a signer the venue does
\* not have, a receipt already used, a leg that is not fungible, a leg whose
\* sender is not among the portfolios of the call, a signature that does not
\* verify) or a leg without a receipt cannot be locked, the call fails and the
\* whole storage is what it was: no receipt flag, leg status, lock, affirmation
\* status or counter has changed; the function leaves nothing to be discarded.
C13_ReceiptAffirmationAtomic ==
    [][/\ IsCall
       /\ last'.op = "affirm_with_receipts"
       /\ ReceiptInvalid(last') \/ ReceiptLockFails(last')
       => /\ last'.res # "Ok"
          /\ UNCHANGED storageVars
          /\ base_affirm_with_receipts(Storage, last'.arg.who, last'.id,
                 last'.arg.receipts, last'.arg.portfolios,
                 last'.arg.fungible_transfers).st = Storage]_vars

\* The second lock of an affirmation failed after the first had been taken:
\* nothing is locked and no leg is marked
C13_Witness ==
    /\ last.op = "affirm_with_receipts"
    /\ last.res = "FailedToLockTokens"
    /\ get_instruction_leg(Storage, last.id, 1).asset = Fungible("T1", 2)
    /\ PortfolioLockedAssets["pA"]["T1"] = 0
    /\ instruction_leg_status(Storage, last.id, 1) = PendingTokenLock
    /\ user_affirmations(Storage, "pA", last.id) = "Pending"

\* The first receipt of a call that names the leg
ReceiptFor(c, leg_id) ==
    c.arg.receipts[CHOOSE i \in 1..Len(c.arg.receipts) :
        /\ c.arg.receipts[i].leg_id = leg_id
        /\ \A j \in 1..(i - 1) : c.arg.receipts[j].leg_id # leg_id]

\* C14: after affirm_with_receipts has succeeded for the portfolios P, a leg sent
\* from P that a receipt names is ExecutionToBeSkipped(signer, uid) of that
\* receipt and nothing is locked for it, every receipt of the call has its used
\* flag set, every other leg sent from P is ExecutionPending and its amount is
\* locked, and the legs of other senders are as they were.
C14_ReceiptAffirmationPostcondition ==
    [][IsCall /\ last'.op = "affirm_with_receipts" /\ last'.res = "Ok"
         => LET id == last'.id
                P == last'.arg.portfolios
                legs == get_instruction_legs(Storage, id)
            IN  /\ \A i \in 1..Len(legs) :
                      instruction_leg_status(Storage', id, legs[i][1])
                          = IF legs[i][2].from \notin P
                            THEN instruction_leg_status(Storage, id, legs[i][1])
                            ELSE IF legs[i][1] \in CoveredLegs(last')
                            THEN ExecutionToBeSkipped(
                                     ReceiptFor(last', legs[i][1]).signer,
                                     ReceiptFor(last', legs[i][1]).receipt_uid)
                            ELSE ExecutionPending
                /\ ReceiptsUsed' = ReceiptsUsed \cup Presented(last')
                /\ \A p \in Portfolios, t \in FungibleTickers :
                      PortfolioLockedAssets'[p][t]
                          = PortfolioLockedAssets[p][t]
                              + LockedByExcept(legs, P, CoveredLegs(last'), p, t)
                /\ UNCHANGED PortfolioLockedNFT]_vars

\* A party affirmed its two legs with a receipt for the off-chain one: that leg
\* is to be skipped, the on-chain leg is locked, the receipt is used
C14_Witness ==
    /\ last.op = "affirm_with_receipts"
    /\ last.res = "Ok"
    /\ last.arg.receipts = <<GoodReceipt(7)>>
    /\ instruction_leg_status(Storage, last.id, 1) = ExecutionToBeSkipped("s1", 7)
    /\ instruction_leg_status(Storage, last.id, 0) = ExecutionPending
    /\ PortfolioLockedAssets["pA"]["T1"] = 1
    /\ PortfolioLockedAssets["pA"]["OFF"] = 0
    /\ <<"s1", 7>> \in ReceiptsUsed

\* The nfts_transfers argument (-1 for None) of the withdrawal that takes back an
\* affirmation: affirm_instruction_v2 is taken back by withdraw_affirmation_v2,
\* the other two by withdraw_affirmation
WithdrawNftsArg(c) == IF c.op = "affirm_instruction_v2" THEN c.arg.nfts_transfers ELSE -1

\* The withdrawal, from the storage st, of what the affirmation c affirmed
WithdrawalOf(st, c) ==
    Withdraw(st, c.arg.who, c.id, c.arg.portfolios, c.arg.fungible_transfers,
             WithdrawNftsArg(c))

\* The affirmation state of an instruction and the locks are in st what they are
\* in the current storage
SameAffirmationState(st, id) ==
    /\ \A l \in 0..2 :
          instruction_leg_status(st, id, l) = instruction_leg_status(Storage, id, l)
    /\ \A p \in Portfolios :
          /\ user_affirmations(st, p, id) = user_affirmations(Storage, p, id)
          /\ affirms_received(st, id, p) = affirms_received(Storage, id, p)
    /\ instruction_affirms_pending(st, id) = instruction_affirms_pending(Storage, id)
    /\ st.PortfolioLockedAssets = PortfolioLockedAssets
    /\ st.PortfolioLockedNFT = PortfolioLockedNFT

\* C15: a withdrawal reverses an affirmation.  When a set of portfolios has
\* affirmed an instruction, with or without receipts, the withdrawal of the same
\* set succeeds and leaves the leg statuses, the affirmation statuses, the
\* pending counter, the token and NFT locks and the used flags of the receipts
\* as they were before the affirmation.
C15_WithdrawalReversesAffirmation ==
    [][IsCall /\ last'.op \in AffirmOps /\ last'.res = "Ok"
         => /\ WithdrawalOf(Storage', last').err = "Ok"
            /\ SameAffirmationState(WithdrawalOf(Storage', last').st, last'.id)
            /\ WithdrawalOf(Storage', last').st.ReceiptsUsed = ReceiptsUsed]_vars

\* C16: after a withdrawal from a SettleOnAffirmation instruction has succeeded,
\* the agenda holds no execution of that instruction; and whether a withdrawal
\* succeeds does not depend on the agenda: its result is the result it has when
\* nothing is scheduled.
C16_WithdrawalCancelsExecution ==
    [][IsCall /\ last'.op \in WithdrawOps
         => /\ last'.res = "Ok"
                 /\ instruction_details(Storage, last'.id).settlement_type
                       = SettleOnAffirmation
               => ScheduledAt(Agenda', last'.id) = {}
            /\ last'.res
                 = Withdraw([Storage EXCEPT !.Agenda = <<>>], last'.arg.who, last'.id,
                            last'.arg.portfolios, last'.arg.fungible_transfers,
                            IF last'.op = "withdraw_affirmation" THEN -1
                            ELSE last'.arg.nfts_transfers).err]_vars

\* A party withdrew from a SettleOnAffirmation instruction that every party had
\* affirmed, whose execution was therefore scheduled: the agenda is empty
C16_Witness ==
    /\ last.op \in WithdrawOps
    /\ last.res = "Ok"
    /\ instruction_details(Storage, last.id).settlement_type = SettleOnAffirmation
    /\ instruction_status(Storage, last.id) = Pending
    /\ last.arg.portfolios = {"pB"}
    /\ instruction_affirms_pending(Storage, last.id) = 1
    /\ user_affirmations(Storage, "pA", last.id) = "Affirmed"
    /\ Agenda = <<>>

RejectOps == {"reject_instruction", "reject_instruction_v2"}

\* The portfolio is the sender or the receiver of a leg of the instruction
IsParty(id, portfolio) ==
    \E l \in DOMAIN get_instruction_legs(Storage, id) :
        \/ get_instruction_legs(Storage, id)[l][2].from = portfolio
        \/ get_instruction_legs(Storage, id)[l][2].to = portfolio

\* The transfer counts that a call declares cover the legs of the instruction
\* (nfts is -1 when the call has no such argument)
DeclaredCountsCover(id, fungible, nfts) ==
    LET legs == get_instruction_legs(Storage, id)
        n == NftCount([i \in 1..Len(legs) |-> legs[i][2]])
    IN  /\ Cardinality({i \in 1..Len(legs) : legs[i][2].asset.kind = "Fungible"}) <= fungible
        /\ n > 0 => n <= nfts

\* What the legs that are ExecutionPending hold locked of ticker t in portfolio p
RECURSIVE PendingLocked(_, _, _, _)
PendingLocked(legs, id, p, t) ==
    IF legs = <<>> THEN 0
    ELSE LET leg == Head(legs)[2]
         IN  (IF /\ instruction_leg_status(Storage, id, Head(legs)[1]) = ExecutionPending
                 /\ leg.asset.kind = "Fungible" /\ leg.asset.ticker = t /\ leg.from = p
              THEN leg.asset.amount ELSE 0)
             + PendingLocked(Tail(legs), id, p, t)

\* The NFTs that the legs that are ExecutionPending hold locked
PendingNfts(legs, id) ==
    {n \in NFTIds : \E i \in 1..Len(legs) :
        /\ instruction_leg_status(Storage, id, legs[i][1]) = ExecutionPending
        /\ \E k \in 1..Len(legs[i][2].asset.ids) : legs[i][2].asset.ids[k] = n}

\* C17: rejection.  A caller with custody of a portfolio that is the sender or
\* the receiver of a leg of an instruction that is Pending or Failed, who
\* declares transfer counts that cover the legs, rejects it: the call succeeds,
\* the locks of the legs that were affirmed are released, no receipt claimed for
\* the instruction is still flagged used (with one instruction every used
\* receipt was claimed for it), the agenda holds no execution of the
\* instruction, and the status is Rejected at the current block.  A rejection
\* for a portfolio that is on no leg of a known instruction fails with
\* CallerIsNotAParty and changes nothing.
C17_Rejection ==
    [][IsCall /\ last'.op \in RejectOps
         => LET id == last'.id
                a == last'.arg
                legs == get_instruction_legs(Storage, id)
            IN  /\ /\ instruction_status(Storage, id) \in {Pending, Failed}
                   /\ IsParty(id, a.portfolio)
                   /\ Custodian[a.portfolio] = a.who
                   /\ DeclaredCountsCover(id, a.fungible_transfers,
                          IF last'.op = "reject_instruction" THEN -1 ELSE a.nfts_transfers)
                   => /\ last'.res = "Ok"
                      /\ \A p \in Portfolios, t \in FungibleTickers :
                            PortfolioLockedAssets'[p][t]
                               = PortfolioLockedAssets[p][t] - PendingLocked(legs, id, p, t)
                      /\ PortfolioLockedNFT' = PortfolioLockedNFT \ PendingNfts(legs, id)
                      /\ ReceiptsUsed' = {}
                      /\ ScheduledAt(Agenda', id) = {}
                      /\ instruction_status(Storage', id) = Rejected(block_number)
                /\ instruction_status(Storage, id) # Unknown /\ ~IsParty(id, a.portfolio)
                   => last'.res = "CallerIsNotAParty" /\ UNCHANGED storageVars]_vars

\* C18: after an instruction has been pruned, by a successful execution or by a
\* rejection, its status is Success or Rejected at the block of the call and
\* nothing else of it is stored: no details, legs, leg statuses, pending counter,
\* affirmation entries of either index, venue index entry or memo.
C18_PrunedKeepsOnlyStatus ==
    [][/\ IsCall
       /\ \/ ExecutionSucceeded(last')
          \/ last'.op \in RejectOps /\ last'.res = "Ok"
       => /\ instruction_status(Storage', last'.id)
                = IF last'.op \in RejectOps THEN Rejected(block_number)
                  ELSE Success(block_number)
          /\ Pruned(Storage', last'.id)
          /\ \A v \in 0..MaxVenues : <<v, last'.id>> \notin VenueInstructions'
          /\ last'.id \notin InstructionMemos']_vars

\* C19: reschedule_instruction succeeds exactly when the status of the
\* instruction is Failed.  It then sets the status to Pending and asks the
\* scheduler for an execution at the next block (the task is in the agenda at
\* block + 1, unless a task of the instruction was already there and the request
\* was refused), and changes nothing else.  From any other status (Unknown,
\* Pending, Success, Rejected) it fails with InstructionNotFailed and the storage,
\* the status and the agenda included, is what it was.
C19_RescheduleOnlyFromFailed ==
    [][IsCall /\ last'.op = "reschedule_instruction"
         => IF instruction_status(Storage, last'.id) = Failed
            THEN /\ last'.res = "Ok"
                 /\ Storage' =
                      [Storage EXCEPT
                         !.InstructionStatuses = Put(@, last'.id, Pending),
                         !.Agenda = IF ScheduledAt(@, last'.id) # {} THEN @
                                    ELSE WithTask(@, last'.id, block_number + 1)]
            ELSE /\ last'.res = "InstructionNotFailed"
                 /\ UNCHANGED storageVars]_vars

\* A Failed instruction was rescheduled: it is Pending and its execution is in
\* the agenda for the next block
C19_Witness ==
    /\ last.op = "reschedule_instruction"
    /\ last.res = "Ok"
    /\ instruction_status(Storage, last.id) = Pending
    /\ ScheduledAt(Agenda, last.id) = {block_number + 1}
    /\ instruction_affirms_pending(Storage, last.id) = 0

\* The execution of the instruction by the scheduler, from the storage st
RetryOf(st, id) ==
    base_execute_scheduled_instruction(
        [st EXCEPT !.Agenda = SelectSeq(@, LAMBDA t : t.name # execution_name(id))], id)

\* Balances, locks, legs, leg statuses, affirmations and the pending counter are
\* in st what they are in the current storage
NoDrift(st) ==
    /\ st.PortfolioAssetBalances = PortfolioAssetBalances
    /\ st.PortfolioNFT = PortfolioNFT
    /\ st.PortfolioLockedAssets = PortfolioLockedAssets
    /\ st.PortfolioLockedNFT = PortfolioLockedNFT
    /\ st.InstructionDetails = InstructionDetails
    /\ st.InstructionLegs = InstructionLegs
    /\ st.InstructionLegsV2 = InstructionLegsV2
    /\ st.InstructionLegStatus = InstructionLegStatus
    /\ st.UserAffirmations = UserAffirmations
    /\ st.AffirmsReceived = AffirmsReceived
    /\ st.InstructionAffirmsPending = InstructionAffirmsPending

\* C20: the reschedule loop.  A reschedule of a Failed instruction leaves it
\* Pending with balances, locks, legs and affirmations untouched; if the
\* execution by the scheduler then fails again, the instruction is Failed again,
\* again with balances, locks, legs and affirmations as they were before the
\* reschedule, and it can be rescheduled again: the cycle Failed, Pending, Failed
\* has no bound and moves nothing.  So does every failed execution by the
\* scheduler of an instruction that is Pending.
C20_RescheduleLoop ==
    [][/\ IsCall /\ last'.op = "reschedule_instruction" /\ last'.res = "Ok"
          => /\ instruction_status(Storage, last'.id) = Failed
             /\ instruction_status(Storage', last'.id) = Pending
             /\ NoDrift(Storage')
             /\ RetryOf(Storage', last'.id).val.err # "Ok"
                   => /\ instruction_status(RetryOf(Storage', last'.id).st, last'.id) = Failed
                      /\ NoDrift(RetryOf(Storage', last'.id).st)
                      /\ Reschedule(RetryOf(Storage', last'.id).st, last'.id).err = "Ok"
       /\ IsCall /\ last'.op = "execute_scheduled_instruction_v2" /\ last'.arg # "Ok"
            /\ instruction_status(Storage, last'.id) = Pending
          => /\ instruction_status(Storage', last'.id) = Failed
             /\ NoDrift(Storage')
             /\ Reschedule(Storage', last'.id).err = "Ok"
      ]_vars

\* An instruction that had failed on its NFT leg was rescheduled while the NFT
\* is still frozen: it is Pending, its affirmations and locks are held, nothing
\* has moved, and the execution that is scheduled will fail again
C20_Witness ==
    /\ last.op = "reschedule_instruction"
    /\ last.res = "Ok"
    /\ NFTTicker \in Frozen
    /\ instruction_status(Storage, last.id) = Pending
    /\ instruction_affirms_pending(Storage, last.id) = 0
    /\ PortfolioLockedAssets["pA"]["T1"] = 1
    /\ PortfolioAssetBalances["pA"]["T1"] = 2
    /\ PortfolioLockedNFT # {}
    /\ RetryOf(Storage, last.id).val.err = "InstructionFailed"

(***************************************************************************)
(* Venue filtering, counters, the agenda, leg order                        *)
(***************************************************************************)
\* C21: venue filtering is checked again at execution.  When an execution (by the
\* scheduler, or by execute_manual_instruction once its own checks have passed)
\* is attempted on a Pending instruction with no pending affirmation while
\* filtering is enabled for the asset of one of its legs and its venue is not on
\* the allow list of that asset, the attempt fails with UnauthorizedVenue, no leg
\* is attempted or transferred, and what the creation stored (details and legs)
\* is untouched.
C21_VenueRecheckedAtExecution ==
    [][/\ IsCall
       /\ last'.op \in ExecutionOps
       /\ last'.op = "execute_manual_instruction"
            => ManualChecks(Storage, last'.id, last'.arg) = "Ok"
       /\ instruction_affirms_pending(Storage, last'.id) = 0
       /\ instruction_status(Storage, last'.id) = Pending
       /\ LET legs == get_instruction_legs(Storage, last'.id)
          IN  \E i \in 1..Len(legs) :
                 LET ticker == ticker_and_amount(legs[i][2].asset)[1]
                 IN  /\ ticker \in VenueFiltering
                     /\ <<ticker, instruction_details(Storage, last'.id).venue_id>>
                            \notin VenueAllowList
       => /\ ExecError(last') = "UnauthorizedVenue"
          /\ last'.leg = -1
          /\ UNCHANGED <<PortfolioAssetBalances, PortfolioNFT, PortfolioLockedAssets,
                         PortfolioLockedNFT, InstructionDetails, InstructionLegs,
                         InstructionLegsV2, InstructionLegStatus>>]_vars

\* The scheduler refused a fully affirmed instruction because filtering had been
\* enabled for its asset after the creation: the tokens are still locked with
\* their sender
C21_Witness ==
    /\ last.op = "execute_scheduled_instruction_v2"
    /\ last.arg = "UnauthorizedVenue"
    /\ last.leg = -1
    /\ "T1" \in VenueFiltering
    /\ instruction_affirms_pending(Storage, last.id) = 0
    /\ instruction_status(Storage, last.id) = Failed
    /\ PortfolioLockedAssets["pA"]["T1"] > 0
    /\ PortfolioAssetBalances["pA"]["T1"] = 2

\* What a step that calls a creation does to the counter it draws its id from:
\* `counter` and `issued` are the counter and the ids in use before the call,
\* `counter_after` is the counter after it
CreationStep(c, counter, counter_after, issued) ==
    /\ c.res = "Ok" => /\ c.id = counter
                       /\ counter_after = counter + 1
                       /\ counter < U64Max
                       /\ c.id \notin issued
    /\ c.res # "Ok" => counter_after = counter
    /\ counter = U64Max => c.res # "Ok"
    /\ c.res = "CounterOverflow" => counter = U64Max

C23_OneScheduledExecution ==
    /\ [](\A i, j \in 1..Len(Agenda) : Agenda[i].id = Agenda[j].id => i = j)
    /\ [][\A i \in 1..Len(Agenda) :
             ScheduledAt(Agenda', Agenda[i].id) \subseteq {Agenda[i].at}]_vars

\* A caller affirmed, with no portfolio, a SettleOnAffirmation instruction that
\* every party had affirmed: the request for an execution met the task that the
\* last affirmation had scheduled, and that task is the only one
C23_Witness ==
    /\ last.op \in AffirmOps
    /\ last.res = "Ok"
    /\ last.arg.portfolios = {}
    /\ instruction_status(Storage, last.id) = Pending
    /\ instruction_affirms_pending(Storage, last.id) = 0
    /\ instruction_details(Storage, last.id).settlement_type = SettleOnAffirmation
    /\ ScheduledAt(Agenda, last.id) # {}
    /\ Len(Agenda) = 1

\* The lowest leg id, from leg_id on, whose transfer fails when the legs that are
\* ExecutionPending are transferred in the order of their ids from the storage
\* st (-1 if none fails); n is the number of legs
RECURSIVE FirstFailingLeg(_, _, _, _)
FirstFailingLeg(st, id, leg_id, n) ==
    IF leg_id >= n THEN -1
    ELSE LET leg == get_instruction_leg(st, id, leg_id)
             r == IF leg.asset.kind = "Fungible"
                  THEN base_transfer(st, leg.from, leg.to, leg.asset.ticker,
                                     leg.asset.amount)
                  ELSE base_nft_transfer(st, leg.from, leg.to, leg.asset)
         IN  IF instruction_leg_status(st, id, leg_id) # ExecutionPending
             THEN FirstFailingLeg(st, id, leg_id + 1, n)
             ELSE IF r.err # "Ok" THEN leg_id
             ELSE FirstFailingLeg(r.st, id, leg_id + 1, n)

\* An execution gets as far as the transfers: the caller may execute, no
\* affirmation is pending, the instruction is Pending and its venue is allowed
ReachesTransfers(c) ==
    /\ c.op \in ExecutionOps
    /\ c.op = "execute_manual_instruction" => ManualChecks(Storage, c.id, c.arg) = "Ok"
    /\ instruction_affirms_pending(Storage, c.id) = 0
    /\ instruction_status(Storage, c.id) = Pending
    /\ UnauthorizedTicker(Storage, instruction_details(Storage, c.id).venue_id,
                          get_instruction_legs(Storage, c.id)) = ""

\* C24: the order of the legs is their ids'.  An execution that gets as far as
\* the transfers releases the locks and transfers the ExecutionPending legs in
\* ascending order of leg id, whatever order storage returns them in: it succeeds
\* if every transfer in that order succeeds, and otherwise fails with
\* InstructionFailed and reports the lowest leg id whose transfer fails after
\* the transfers of the lower ids.
C24_LegOrder ==
    [][IsCall /\ ReachesTransfers(last')
         => LET id == last'.id
                legs == get_instruction_legs(Storage, id)
                failed == FirstFailingLeg(unchecked_release_locks(Storage, id, legs),
                                          id, 0, Len(legs))
            IN  IF failed = -1 THEN ExecError(last') = "Ok"
                ELSE LegTransferFailed(last') /\ last'.leg = failed]_vars

\* Storage returned leg 1 before leg 0, the transfers of both legs would fail,
\* and the execution reported leg 0
C24_Witness ==
    /\ last.op \in ExecutionOps
    /\ LegTransferFailed(last)
    /\ last.leg = 0
    /\ Len(get_instruction_legs(Storage, last.id)) = 2
    /\ get_instruction_legs(Storage, last.id)[1][1] = 1
    /\ \A l \in {0, 1} :
          /\ instruction_leg_status(Storage, last.id, l) = ExecutionPending
          /\ get_instruction_leg(Storage, last.id, l).asset.ticker \in Frozen

(***************************************************************************)
(* Add and affirm, settlement timing, retries                              *)
(***************************************************************************)
AddAndAffirmOps ==
    {"add_and_affirm_instruction", "add_and_affirm_instruction_with_memo",
     "add_and_affirm_instruction_with_memo_v2"}

\* The legs of a call with the ids they would be stored under
IndexedLegs(c) == [i \in 1..Len(GivenLegs(c)) |-> <<i - 1, GivenLegs(c)[i]>>]

\* The affirmation of the given portfolios cannot succeed for the given legs: a
\* portfolio is not in the custody of the caller or is on no leg, the free
\* balance of a portfolio does not cover what its legs send, or an NFT to be
\* sent is locked or not held by the sender
AffirmationPartFails(c) ==
    LET legs == IndexedLegs(c)
        P == c.arg.portfolios
    IN  \/ \E p \in P : Custodian[p] # c.arg.who
        \/ \E p \in P : p \notin PartiesOf(GivenLegs(c))
        \/ \E p \in P, t \in FungibleTickers :
              LockedBy(legs, P, p, t)
                 > PortfolioAssetBalances[p][t] - PortfolioLockedAssets[p][t]
        \/ \E i \in 1..Len(legs) :
              /\ legs[i][2].from \in P
              /\ \E k \in 1..Len(legs[i][2].asset.ids) :
                    \/ legs[i][2].asset.ids[k] \in PortfolioLockedNFT
                    \/ PortfolioNFT[legs[i][2].asset.ids[k]] # legs[i][2].from

\* C25: add-and-affirm is atomic.  When the affirmation part of
\* add_and_affirm_instruction, add_and_affirm_instruction_with_memo or
\* add_and_affirm_instruction_with_memo_v2 cannot succeed (a given portfolio is
\* not the caller's or not a party, or a lock fails), the call fails and no
\* instruction has been created: the instruction counter, the instruction
\* tables, the affirmation entries, the locks and the agenda are what they were.
C25_AddAndAffirmAtomic ==
    [][IsCall /\ last'.op \in AddAndAffirmOps /\ AffirmationPartFails(last')
         => last'.res # "Ok" /\ UNCHANGED storageVars]_vars

\* An instruction that could have been added was refused because its sender
\* could not lock the tokens of both of its legs: no instruction is stored and
\* the counter has not moved
C25_Witness ==
    /\ last.op = "add_and_affirm_instruction_with_memo_v2"
    /\ last.res # "Ok"
    /\ last.arg.legs = TwoLegs
    /\ ~AddPreconditionViolated(last.arg, GivenLegs(last))
    /\ \E p \in last.arg.portfolios :
          LockedBy(IndexedLegs(last), last.arg.portfolios, p, "T1")
             > PortfolioAssetBalances[p]["T1"] - PortfolioLockedAssets[p]["T1"]
    /\ InstructionCounter = 1
    /\ InstructionStatuses = EmptyMap
    /\ PortfolioLockedAssets["pA"]["T1"] = 0

\* The settlement type waits for a block
TimedTypes == {"SettleOnBlock", "SettleManual"}

\* C26: settlement timing.  An instruction of type SettleOnBlock(b) or
\* SettleManual(b) gets the status Success(n) in no step with n < b; a manual
\* execution of such an instruction before block b fails with
\* InstructionSettleBlockNotReached; and no call that adds or affirms an
\* instruction puts a task for a SettleManual instruction into the agenda.
C26_SettlementTiming ==
    [][/\ \A id \in DOMAIN InstructionDetails :
             /\ InstructionDetails[id].settlement_type.t \in TimedTypes
             /\ instruction_status(Storage', id).s = "Success"
             /\ instruction_status(Storage, id).s # "Success"
             => instruction_status(Storage', id).b >= InstructionDetails[id].settlement_type.b
       /\ /\ IsCall
          /\ last'.op = "execute_manual_instruction"
          /\ instruction_status(Storage, last'.id) # Unknown
          /\ instruction_details(Storage, last'.id).settlement_type.t \in TimedTypes
          /\ block_number < instruction_details(Storage, last'.id).settlement_type.b
          => last'.res = "InstructionSettleBlockNotReached"
       /\ IsCall /\ last'.op \in AddOps \cup AffirmOps
          => \A id \in DOMAIN InstructionDetails' :
                InstructionDetails'[id].settlement_type.t = "SettleManual"
                => ScheduledAt(Agenda', id) \subseteq ScheduledAt(Agenda, id)]_vars

\* The execution that execute_instruction would make of the instruction if its
\* status were Pending
AttemptAsPending(id) ==
    execute_instruction([Storage EXCEPT !.InstructionStatuses = Put(@, id, Pending)], id)

C28_NoDoubleExecution ==
    [][/\ /\ IsCall
          /\ last'.op \in ExecutionOps
          /\ instruction_status(Storage, last'.id).s \in {"Success", "Rejected", "Unknown"}
          => /\ ExecError(last') # "Ok"
             /\ UNCHANGED <<PortfolioAssetBalances, PortfolioNFT>>
       /\ \A id \in DOMAIN InstructionStatuses :
             InstructionStatuses[id].s = "Success"
             => instruction_status(Storage', id) = InstructionStatuses[id]
       /\ ~UNCHANGED <<PortfolioAssetBalances, PortfolioNFT>>
          => /\ IsCall
             /\ last'.op \in ExecutionOps \cup {"affirm_and_execute_instruction"}
             /\ last'.res = "Ok"
             /\ instruction_status(Storage, last'.id) = Pending
             /\ instruction_status(Storage', last'.id) = Success(block_number)]_vars

\* A party executed a SettleOnBlock instruction by hand at its block; the call
\* that the scheduler still held for it then ran and was refused: the tokens
\* have moved once
C28_Witness ==
    /\ last.op = "execute_scheduled_instruction_v2"
    /\ last.arg = "InstructionNotPending"
    /\ instruction_status(Storage, last.id).s = "Success"
    /\ PortfolioAssetBalances["pA"]["T1"] = 0
    /\ PortfolioAssetBalances["pB"]["T1"] = 2
    /\ PortfolioLockedAssets["pA"]["T1"] = 0

\* The storage in which a call gets to the execution of the instruction: for
\* affirm_and_execute_instruction the storage that its affirmation leaves
StorageAtExecution(c) ==
    IF c.op = "affirm_and_execute_instruction"
    THEN (IF c.arg.receipt # <<>>
          THEN base_affirm_with_receipts(Storage, c.arg.who, c.id, c.arg.receipt,
                                         c.arg.portfolios, c.arg.max_legs_count)
          ELSE base_affirm_instruction(Storage, c.arg.who, c.id, c.arg.portfolios,
                                       c.arg.max_legs_count, c.arg.nfts_transferred)).st
    ELSE Storage

\* What the legs that are ExecutionPending in st bring to (+) and take from (-)
\* the balance of ticker t in portfolio p
RECURSIVE FlowAt(_, _, _, _, _)
FlowAt(st, legs, id, p, t) ==
    IF legs = <<>> THEN 0
    ELSE LET leg == Head(legs)[2]
             moved == /\ instruction_leg_status(st, id, Head(legs)[1]) = ExecutionPending
                      /\ leg.asset.kind = "Fungible"
                      /\ leg.asset.ticker = t
         IN  (IF moved /\ leg.to = p THEN leg.asset.amount ELSE 0)
             - (IF moved /\ leg.from = p THEN leg.asset.amount ELSE 0)
             + FlowAt(st, Tail(legs), id, p, t)

\* C29: Success implies executed.  In every step in which the status of an
\* instruction becomes Success, whatever the entry point
\* (affirm_and_execute_instruction included), the pending counter was zero when
\* the execution was due, and every leg that was ExecutionPending then has been
\* transferred: the fungible amounts have moved and the NFTs are with their
\* receivers.
C29_SuccessImpliesExecuted ==
    [][\A id \in DOMAIN InstructionStatuses :
          /\ instruction_status(Storage', id).s = "Success"
          /\ InstructionStatuses[id].s # "Success"
          => LET st == StorageAtExecution(last')
                 legs == get_instruction_legs(st, id)
             IN  /\ instruction_affirms_pending(st, id) = 0
                 /\ \A p \in Portfolios, t \in FungibleTickers :
                       PortfolioAssetBalances'[p][t]
                          = PortfolioAssetBalances[p][t] + FlowAt(st, legs, id, p, t)
                 /\ \A i \in 1..Len(legs) :
                       /\ legs[i][2].asset.kind = "NonFungible"
                       /\ instruction_leg_status(st, id, legs[i][1]) = ExecutionPending
                       => \A k \in 1..Len(legs[i][2].asset.ids) :
                             PortfolioNFT'[legs[i][2].asset.ids[k]] = legs[i][2].to]_vars

\* The legs of the stored instructions whose status is
\* ExecutionToBeSkipped(signer, uid), as pairs of instruction id and leg id
SkippedLegs(st, signer, uid) ==
    UNION {{<<id, get_instruction_legs(st, id)[i][1]>> :
               i \in {j \in 1..Len(get_instruction_legs(st, id)) :
                        instruction_leg_status(st, id, get_instruction_legs(st, id)[j][1])
                           = ExecutionToBeSkipped(signer, uid)}} :
            id \in DOMAIN st.InstructionDetails}

\* C30: receipts and legs are consistent.  In every reachable state, for each
\* pair of a signer and a receipt uid, at most one leg of the instructions that
\* are stored has the status ExecutionToBeSkipped(signer, uid), and when a leg
\* has that status the used flag of the pair is set; also after failed
\* executions, withdrawals and rejections.
C30_ReceiptLegConsistency ==
    \A signer \in Signers, uid \in ReceiptUids :
        /\ Cardinality(SkippedLegs(Storage, signer, uid)) <= 1
        /\ SkippedLegs(Storage, signer, uid) # {}
              => receipts_used(Storage, signer, uid)

\* What the ExecutionPending legs of the instructions ids hold locked of ticker
\* t in portfolio p
RECURSIVE PendingLockedOver(_, _, _)
PendingLockedOver(ids, p, t) ==
    IF ids = {} THEN 0
    ELSE LET id == CHOOSE x \in ids : TRUE
         IN  PendingLocked(get_instruction_legs(Storage, id), id, p, t)
             + PendingLockedOver(ids \ {id}, p, t)

\* The errors of the unlocking of tokens and NFTs
UnlockErrors == {"InsufficientTokensLocked", "NFTIsNotLocked", "NFTNotFoundInPortfolio"}

\* C31: locks are conserved.  In every reachable state, for every portfolio and
\* ticker, the amount that is locked equals the sum of the amounts of the
\* fungible legs sent from the portfolio in the ticker whose status is
\* ExecutionPending, over the instructions that are stored, and an NFT is
\* locked exactly when it belongs to such a leg; no lock of an instruction
\* outlives its pruning.
C31_LockConservation ==
    /\ \A p \in Portfolios, t \in FungibleTickers :
          PortfolioLockedAssets[p][t]
             = PendingLockedOver(DOMAIN InstructionDetails, p, t)
    /\ PortfolioLockedNFT
          = UNION {PendingNfts(get_instruction_legs(Storage, id), id) :
                     id \in DOMAIN InstructionDetails}

\* The portfolios that are the sender or the receiver of a leg of the instruction
PartyPortfolios(st, id) ==
    {p \in Portfolios : \E i \in 1..Len(get_instruction_legs(st, id)) :
        \/ get_instruction_legs(st, id)[i][2].from = p
        \/ get_instruction_legs(st, id)[i][2].to = p}

\* The party portfolios of the instruction whose affirmation status is Pending
PendingParties(st, id) ==
    {p \in PartyPortfolios(st, id) : user_affirmations(st, p, id) = "Pending"}

\* C32: the pending counter.  In every reachable state, for every instruction
\* that is stored, the pending counter is the number of distinct party
\* portfolios of the instruction whose affirmation status is Pending: it is at
\* most the number of parties, and it is zero exactly when every party has
\* affirmed.
C32_PendingCounter ==
    \A id \in DOMAIN InstructionDetails :
        /\ instruction_affirms_pending(Storage, id)
              = Cardinality(PendingParties(Storage, id))
        /\ instruction_affirms_pending(Storage, id)
              <= Cardinality(PartyPortfolios(Storage, id))
        /\ instruction_affirms_pending(Storage, id) = 0
              <=> \A p \in PartyPortfolios(Storage, id) :
                     user_affirmations(Storage, p, id) = "Affirmed"

\* One of two parties affirmed and then withdrew: the counter, which had gone
\* down to 1, is 2 again
C32_Witness ==
    /\ last.op \in WithdrawOps
    /\ last.res = "Ok"
    /\ last.id \in DOMAIN InstructionDetails
    /\ instruction_affirms_pending(Storage, last.id) = 2
    /\ Cardinality(PendingParties(Storage, last.id)) = 2

\* C33: the status of a leg follows the affirmation of its sender.  In every
\* reachable state, a leg of an instruction that is stored has the status
\* ExecutionPending or ExecutionToBeSkipped exactly when the affirmation status
\* of its from portfolio is Affirmed; a withdrawal meets no leg that is
\* PendingTokenLock and never returns InstructionNotAffirmed.
C33_LegStatusFollowsSender ==
    /\ [](\A id \in DOMAIN InstructionDetails :
            \A i \in 1..Len(get_instruction_legs(Storage, id)) :
               LET leg == get_instruction_legs(Storage, id)[i]
               IN  instruction_leg_status(Storage, id, leg[1]).s
                       \in {"ExecutionPending", "ExecutionToBeSkipped"}
                   <=> user_affirmations(Storage, leg[2].from, id) = "Affirmed")
    /\ [][IsCall /\ last'.op \in WithdrawOps
            => last'.res # "InstructionNotAffirmed"]_vars

\* A withdrawal of the sender of a leg went through: the leg that was
\* ExecutionPending is PendingTokenLock again and the sender is Pending
C33_Witness ==
    /\ last.op \in WithdrawOps
    /\ last.res = "Ok"
    /\ last.id \in DOMAIN InstructionDetails
    /\ \E i \in 1..Len(get_instruction_legs(Storage, last.id)) :
          LET leg == get_instruction_legs(Storage, last.id)[i]
          IN  /\ leg[2].from \in last.arg.portfolios
              /\ instruction_leg_status(Storage, last.id, leg[1]) = PendingTokenLock
              /\ user_affirmations(Storage, leg[2].from, last.id) = "Pending"
    /\ \E i \in 1..Len(get_instruction_legs(Storage, last.id)) :
          LET leg == get_instruction_legs(Storage, last.id)[i]
          IN  /\ instruction_leg_status(Storage, last.id, leg[1]) = ExecutionPending
              /\ user_affirmations(Storage, leg[2].from, last.id) = "Affirmed"

TerminalStatuses == {"Success", "Rejected"}

\* C34: the terminal statuses are stable.  Once the status of an instruction is
\* Success(b) or Rejected(b), no step changes the status or brings back one of
\* its pruned records, and no call that names the instruction changes a balance
\* or a lock.
C34_TerminalStable ==
    [][\A id \in DOMAIN InstructionStatuses :
          InstructionStatuses[id].s \in TerminalStatuses
          => /\ instruction_status(Storage', id) = InstructionStatuses[id]
             /\ Pruned(Storage, id) => Pruned(Storage', id)
             /\ IsCall /\ last'.id = id
                => UNCHANGED <<PortfolioAssetBalances, PortfolioLockedAssets,
                               PortfolioNFT, PortfolioLockedNFT>>]_vars

\* The last call was an affirmation of the instruction, or its rescheduling,
\* and left it Pending, of type SettleOnAffirmation, with nothing left to
\* affirm, at a block that has a next one within the bound on blocks
AllAffirmed(id) ==
    /\ last.op \in AffirmOps \cup AddAndAffirmOps \cup {"reschedule_instruction"}
    /\ last.res = "Ok"
    /\ last.id = id
    /\ instruction_status(Storage, id) = Pending
    /\ instruction_details(Storage, id).settlement_type = SettleOnAffirmation
    /\ id \in DOMAIN InstructionDetails
    /\ instruction_affirms_pending(Storage, id) = 0
    /\ block_number < MaxBlock

\* The instruction was executed: it is pruned with status Success, or kept with
\* status Failed
Settled(id) ==
    \/ instruction_status(Storage, id).s = "Success" /\ Pruned(Storage, id)
    \/ instruction_status(Storage, id) = Failed /\ id \in DOMAIN InstructionDetails

\* The last call withdrew an affirmation of the instruction or rejected it, or
\* was refused (no call follows a call that was refused)
Interrupted(id) ==
    \/ last.op \in WithdrawOps \cup RejectOps /\ last.id = id
    \/ last.res # "Ok"

C36_ReceiptCoversLeg ==
    [][IsCall /\ last'.op = "affirm_with_receipts" /\ last'.res = "Ok"
         => \A r \in ReceiptsUsed' \ ReceiptsUsed :
               Cardinality(SkippedLegs(Storage', r[1], r[2])) = 1]_vars

\* The instruction is stored, is to settle on a block that has been reached,
\* and a party has still to affirm it
SettleBlockMissed(st, id, now) ==
    /\ id \in DOMAIN st.InstructionDetails
    /\ instruction_details(st, id).settlement_type.t = "SettleOnBlock"
    /\ instruction_details(st, id).settlement_type.b <= now
    /\ instruction_affirms_pending(st, id) > 0

\* Something that was locked before the step is not locked after it
LockReleased ==
    \/ \E p \in Portfolios, t \in FungibleTickers :
          PortfolioLockedAssets'[p][t] < PortfolioLockedAssets[p][t]
    \/ ~(PortfolioLockedNFT \subseteq PortfolioLockedNFT')

\* C37: a SettleOnBlock(b) instruction that still has pending affirmations when
\* block b is reached never reaches Success.  From then on it stays as it is
\* until it is rejected: an affirmation and a withdrawal are refused with
\* InstructionSettleBlockPassed, an execution by the scheduler or by
\* execute_manual_instruction leaves it Failed, a rescheduling is followed by
\* another failure, and only a rejection releases a lock taken for it.
C37_MissedSettleBlock ==
    [][\A id \in DOMAIN InstructionDetails :
          SettleBlockMissed(Storage, id, block_number)
          => /\ instruction_status(Storage', id).s # "Success"
             /\ \/ SettleBlockMissed(Storage', id, block_number')
                \/ /\ last'.op \in RejectOps /\ last'.res = "Ok" /\ last'.id = id
                   /\ instruction_status(Storage', id).s = "Rejected"
             /\ IsCall /\ last'.id = id /\ last'.op \in AffirmOps \cup WithdrawOps
                => last'.res = "InstructionSettleBlockPassed" /\ UNCHANGED storageVars
             /\ IsCall /\ last'.id = id /\ last'.op \in ExecutionOps
                => /\ ExecError(last') # "Ok"
                   /\ ExecError(last') = "InstructionFailed"
                      => instruction_status(Storage', id) = Failed
             /\ IsCall /\ last'.id = id /\ last'.op = "reschedule_instruction"
                   /\ last'.res = "Ok"
                => ScheduledAt(Agenda', id) # {}
             /\ IsCall /\ last'.id = id /\ LockReleased
                => last'.op \in RejectOps /\ last'.res = "Ok"]_vars

\* The instruction can be executed at this block: it is known, and the block of
\* a SettleOnBlock or SettleManual instruction has been reached
ValidForExecution(id) == ensure_instruction_validity(Storage, id, TRUE).err = "Ok"

\* C38: permission to execute manually.  execute_manual_instruction with a
\* portfolio succeeds only if the caller has custody of the portfolio and the
\* portfolio is the from or the to of a leg; for a portfolio in the caller's
\* custody that is on no leg it fails with CallerIsNotAParty.  Without a
\* portfolio it succeeds only if the caller is the creator of the venue of the
\* instruction; it fails with InvalidVenue when there is no such venue and with
\* Unauthorized when another identity created it.  A call that fails changes
\* nothing.
C38_ManualExecutionPermission ==
    [][IsCall /\ last'.op = "execute_manual_instruction"
         => LET a == last'.arg
                id == last'.id
                venue_id == instruction_details(Storage, id).venue_id
            IN  /\ last'.res = "Ok" /\ a.portfolio # ""
                   => Custodian[a.portfolio] = a.who /\ IsParty(id, a.portfolio)
                /\ last'.res = "Ok" /\ a.portfolio = ""
                   => /\ venue_id \in DOMAIN VenueInfo
                      /\ VenueInfo[venue_id].creator = a.who
                /\ ValidForExecution(id) /\ a.portfolio # ""
                      /\ Custodian[a.portfolio] = a.who /\ ~IsParty(id, a.portfolio)
                   => last'.res = "CallerIsNotAParty"
                /\ ValidForExecution(id) /\ a.portfolio = ""
                      /\ venue_id \notin DOMAIN VenueInfo
                   => last'.res = "InvalidVenue"
                /\ ValidForExecution(id) /\ a.portfolio = ""
                      /\ venue_id \in DOMAIN VenueInfo
                      /\ VenueInfo[venue_id].creator # a.who
                   => last'.res = "Unauthorized"
                /\ last'.res # "Ok" => UNCHANGED storageVars]_vars

\* bob named a portfolio of his that is on no leg of an instruction that all
\* parties had affirmed: the call was refused and the locks are still held
C38_Witness ==
    /\ last.op = "execute_manual_instruction"
    /\ last.res = "CallerIsNotAParty"
    /\ last.arg.portfolio = "pC"
    /\ last.id \in DOMAIN InstructionDetails
    /\ instruction_affirms_pending(Storage, last.id) = 0
    /\ instruction_status(Storage, last.id) = Pending
    /\ \E p \in Portfolios, t \in FungibleTickers : PortfolioLockedAssets[p][t] > 0

\* C39: the actions on portfolios need a portfolio.  affirm_instruction,
\* affirm_with_receipts and withdraw_affirmation called with an empty portfolio
\* list fail and change nothing: no counter is written, nothing is scheduled or
\* cancelled; the error is NoPortfolioProvided when the instruction is one that
\* can be affirmed at this block.
C39_NoPortfolioProvided ==
    [][IsCall /\ last'.op \in AffirmOps \cup WithdrawOps /\ last'.arg.portfolios = {}
         => /\ last'.res # "Ok"
            /\ UNCHANGED storageVars
            /\ ensure_instruction_validity(Storage, last'.id, FALSE).err = "Ok"
               => last'.res = "NoPortfolioProvided"]_vars

\* The signers of the list that the venue authorises
Authorised(id, signers) ==
    {i \in 1..Len(signers) : venue_signers(Storage, id, signers[i])}

\* C40: the signers of a venue are updated after checks, all or none.  By the
\* creator of the venue, update_venue_signers fails with SignerAlreadyExists when
\* a signer to add is already authorised and with SignerDoesNotExist when a
\* signer to remove is not, and then no signer of the list has been added or
\* removed; otherwise it succeeds and all of them are.  A caller who did not
\* create the venue fails with Unauthorized and a venue that does not exist
\* gives InvalidVenue; whenever the call fails the signers are as they were.
C40_VenueSignersUpdate ==
    [][IsCall /\ last'.op = "update_venue_signers"
         => LET a == last'.arg
                id == last'.id
                listed == {<<id, a.signers[i]>> : i \in 1..Len(a.signers)}
            IN  /\ id \notin DOMAIN VenueInfo => last'.res = "InvalidVenue"
                /\ id \in DOMAIN VenueInfo /\ VenueInfo[id].creator # a.who
                   => last'.res = "Unauthorized"
                /\ id \in DOMAIN VenueInfo /\ VenueInfo[id].creator = a.who
                   => /\ a.add_signers /\ Authorised(id, a.signers) # {}
                         => last'.res = "SignerAlreadyExists"
                      /\ ~a.add_signers
                            /\ Authorised(id, a.signers) # DOMAIN a.signers
                         => last'.res = "SignerDoesNotExist"
                      /\ a.add_signers /\ Authorised(id, a.signers) = {}
                         => last'.res = "Ok" /\ VenueSigners' = VenueSigners \cup listed
                      /\ ~a.add_signers
                            /\ Authorised(id, a.signers) = DOMAIN a.signers
                         => last'.res = "Ok" /\ VenueSigners' = VenueSigners \ listed
                /\ last'.res # "Ok" => UNCHANGED storageVars
                /\ UNCHANGED <<VenueInfo, InstructionStatuses, InstructionAffirmsPending,
                               PortfolioAssetBalances, PortfolioLockedAssets>>]_vars

\* The creator asked to add s2 and s1 to a venue that had s1 already: the call
\* was refused and s2 is not a signer of the venue
C40_Witness ==
    /\ last.op = "update_venue_signers"
    /\ last.res = "SignerAlreadyExists"
    /\ last.arg.signers = <<"s2", "s1">>
    /\ last.arg.add_signers
    /\ venue_signers(Storage, last.id, "s1")
    /\ ~venue_signers(Storage, last.id, "s2")

====
